---- MODULE Spec2Model ----
(***************************************************************************)
(* Model of the bone rename engine of Super Smash Bones (src/__init__.py): *)
(* rename_bones, build_bone_map, normalize_bone_name, get_target_bones.    *)
(* A bone name is a sequence of one-character strings, so that the string  *)
(* operations of the code (startswith, endswith, slicing, the DIGITS       *)
(* regular expression, int() and str()) are computed, not assumed.         *)
(***************************************************************************)
EXTENDS Integers, Sequences, FiniteSets, TLC

(***************************************************************************)
(* Python string primitives                                                *)
(***************************************************************************)

\* s.startswith(pre)
startswith(s, pre) ==
    /\ Len(s) >= Len(pre)
    /\ SubSeq(s, 1, Len(pre)) = pre

\* s.endswith(suf)
endswith(s, suf) ==
    /\ Len(s) >= Len(suf)
    /\ SubSeq(s, Len(s) - Len(suf) + 1, Len(s)) = suf

\* s[a:]   (a >= 0)
SliceFrom(s, a) == SubSeq(s, a + 1, Len(s))

\* s[a:-k] (a >= 0, k > 0): empty when the two cuts cross
SliceMid(s, a, k) == SubSeq(s, a + 1, Len(s) - k)

\* s[:-k]  (k > 0)
SliceDropLast(s, k) == SubSeq(s, 1, Len(s) - k)

DigitChars == <<"0", "1", "2", "3", "4", "5", "6", "7", "8", "9">>

IsDigit(c) == \E d \in 1..10 : DigitChars[d] = c

DigitVal(c) == (CHOOSE d \in 1..10 : DigitChars[d] = c) - 1

\* int(num) for a non-empty string of decimal digits
RECURSIVE int(_)
int(num) ==
    IF Len(num) = 0 THEN 0
    ELSE 10 * int(SubSeq(num, 1, Len(num) - 1)) + DigitVal(num[Len(num)])

\* str(n) for n >= 0: decimal digits, no padding
RECURSIVE str(_)
str(n) ==
    IF n < 10 THEN <<DigitChars[n + 1]>>
    ELSE str(n \div 10) \o <<DigitChars[(n % 10) + 1]>>

\* DIGITS = re.compile(r'^(.*?)(\d+)$'): the lazy prefix leaves the longest
\* run of digits that reaches the end of the string to the second group.
\* DigitRun is the length of that run; the pattern matches iff it is > 0.
RECURSIVE DigitRun(_)
DigitRun(s) ==
    IF Len(s) = 0 \/ ~IsDigit(s[Len(s)]) THEN 0
    ELSE 1 + DigitRun(SubSeq(s, 1, Len(s) - 1))

\* variant: the pattern ends with one digit, not with a run of digits
DIGITS_last_digit(core) ==
    [matched |-> Len(core) > 0 /\ IsDigit(core[Len(core)]),
     pre     |-> SubSeq(core, 1, Len(core) - 1),
     num     |-> IF Len(core) = 0 THEN <<>> ELSE <<core[Len(core)]>>]

DIGITS(core) ==
    [matched |-> DigitRun(core) > 0,
     pre     |-> SubSeq(core, 1, Len(core) - DigitRun(core)),
     num     |-> SubSeq(core, Len(core) - DigitRun(core) + 1, Len(core))]

\* variant: the number is written back without the increment
bump_no_increment(core) ==
    LET m == DIGITS(core)
    IN  IF m.matched THEN m.pre \o str(int(m.num)) ELSE core

\* m = DIGITS.match(core); if m: core = pre + str(int(num) + 1)
bump(core) ==
    LET m == DIGITS(core)
    IN  IF m.matched THEN m.pre \o str(int(m.num) + 1) ELSE core

(***************************************************************************)
(* Name pieces used by the rules                                           *)
(***************************************************************************)
p_S       == <<"S", "_">>
p_SWG     == <<"S", "W", "G", "_">>
s_null    == <<"_", "n", "u", "l", "l">>
s_shit    == <<"_", "_", "s", "h", "i", "t">>
s_swing   == <<"_", "_", "s", "w", "i", "n", "g">>
p_ValveBiped == <<"V", "a", "l", "v", "e", "B", "i", "p", "e", "d", ".">>

\* None and "" are both falsy and the code only tests `new` for truth
None == <<>>

\* normalize_bone_name: strip a leading 'ValveBiped.'
normalize_bone_name(name) ==
    IF startswith(name, p_ValveBiped) THEN SliceFrom(name, Len(p_ValveBiped))
    ELSE name

(***************************************************************************)
(* build_bone_map: a dict is a function whose domain is the set of keys    *)
(***************************************************************************)
EmptyDict == [k \in {} |-> None]

\* d[k] = v
DictPut(d, k, v) == [x \in (DOMAIN d) \cup {k} |-> IF x = k THEN v ELSE d[x]]

\* d.get(k)
DictGet(d, k) == IF k \in DOMAIN d THEN d[k] ELSE None

\* the body of `for src in entry`, for the members j..4 of the entry
RECURSIVE PutMembers(_, _, _, _)
PutMembers(d, entry, raw_tgt, j) ==
    IF j > Len(entry) THEN d
    ELSE LET src      == entry[j]
             d1       == DictPut(d, src, raw_tgt)
             stripped == normalize_bone_name(src)
             d2       == IF stripped # src THEN DictPut(d1, stripped, raw_tgt) ELSE d1
         IN  PutMembers(d2, entry, raw_tgt, j + 1)

\* the body of `for entry in maps`, for the entries e..len(maps)
RECURSIVE PutEntries(_, _, _, _)
PutEntries(d, maps, fmt_i, e) ==
    IF e > Len(maps) THEN d
    ELSE PutEntries(PutMembers(d, maps[e], maps[e][fmt_i + 1], 1), maps, fmt_i, e + 1)

\* variant: an entry does not overwrite the keys of an earlier entry
build_bone_map_first_wins(maps, fmt_i) ==
    PutEntries(EmptyDict, [e \in 1..Len(maps) |-> maps[Len(maps) + 1 - e]], fmt_i, 1)

\* variant: the values are stored without their prefix
build_bone_map_stripped(maps, fmt_i) ==
    LET d == PutEntries(EmptyDict, maps, fmt_i, 1)
    IN  [k \in DOMAIN d |-> normalize_bone_name(d[k])]

build_bone_map(maps, fmt_i) == PutEntries(EmptyDict, maps, fmt_i, 1)

\* fmt_i = {'HL2': 0, 'TF2': 1, 'SSB4': 2, 'SSBU': 3}[target_format]
Formats == {"HL2", "TF2", "SSB4", "SSBU"}

FmtIndex(target_format) ==
    CASE target_format = "HL2"  -> 0
      [] target_format = "TF2"  -> 1
      [] target_format = "SSB4" -> 2
      [] target_format = "SSBU" -> 3

(***************************************************************************)
(* rename_bones: resolution of one bone. orig is bone.name, p tells        *)
(* whether bone.parent exists and pname is bone.parent.name (None without  *)
(* a parent). Every operator returns the value of `new`.                   *)
(***************************************************************************)

\* variant: the trim preference is not applied to the mapped value
direct_map_raw(orig, target_format, bone_map, trim_valvebiped) == bone_map[orig]

\* 1) Direct Map
direct_map(orig, target_format, bone_map, trim_valvebiped) ==
    IF target_format \in {"HL2", "TF2"} /\ trim_valvebiped
    THEN normalize_bone_name(bone_map[orig])
    ELSE bone_map[orig]

\* variant: the null-swing bone is always named from its own core
null_to_SSB4_own(orig, p, pname) == p_SWG \o SliceMid(orig, 2, 5) \o s_shit

\* 2) to SSB4, null-swing branch
null_to_SSB4(orig, p, pname) ==
    IF p /\ startswith(pname, p_SWG) /\ endswith(pname, s_swing)
    THEN p_SWG \o bump(SliceMid(pname, 4, 7)) \o s_shit
    ELSE p_SWG \o SliceMid(orig, 2, 5) \o s_shit

\* variant: the swing rule bumps the number as the null-swing rule does
swing_to_SSB4_bumped(orig) == p_SWG \o bump(SliceFrom(orig, 2)) \o s_swing

\* 2) to SSB4, swing branch
swing_to_SSB4(orig) == p_SWG \o SliceFrom(orig, 2) \o s_swing

\* variant: the swing branch tests the first letter only
to_SSB4_loose(orig, p, pname, do_swing, do_null_swing) ==
    IF do_null_swing /\ startswith(orig, p_S) /\ endswith(orig, s_null)
    THEN null_to_SSB4(orig, p, pname)
    ELSE IF do_swing /\ startswith(orig, <<"S">>)
         THEN swing_to_SSB4(orig)
         ELSE None

to_SSB4(orig, p, pname, do_swing, do_null_swing) ==
    IF do_null_swing /\ startswith(orig, p_S) /\ endswith(orig, s_null)
    THEN null_to_SSB4(orig, p, pname)
    ELSE IF do_swing /\ startswith(orig, p_S)
         THEN swing_to_SSB4(orig)
         ELSE None

\* strip a trailing '_null' from the parent's core
strip_null(core) == IF endswith(core, s_null) THEN SliceDropLast(core, 5) ELSE core

\* variant: the null-swing bone is always named from its own core
null_to_SSBU_own(orig, p, pname) == p_S \o SliceMid(orig, 4, 6) \o s_null

\* variant: any parent is bumped off, whatever its name
null_to_SSBU_any_parent(orig, p, pname) ==
    IF p THEN p_S \o bump(strip_null(SliceFrom(pname, 2))) \o s_null
    ELSE p_S \o SliceMid(orig, 4, 6) \o s_null

\* variant: the number of the parent is copied without the increment
null_to_SSBU_unbumped(orig, p, pname) ==
    IF p /\ startswith(pname, p_S)
    THEN p_S \o strip_null(SliceFrom(pname, 2)) \o s_null
    ELSE p_S \o SliceMid(orig, 4, 6) \o s_null

\* 3) to SSBU, null-swing branch
null_to_SSBU(orig, p, pname) ==
    LET new == IF p /\ startswith(pname, p_S)
               THEN p_S \o bump(strip_null(SliceFrom(pname, 2))) \o s_null
               ELSE None
    IN  IF new = None THEN p_S \o SliceMid(orig, 4, 6) \o s_null ELSE new

\* variant: the swing rule bumps the number as the null-swing rule does
swing_to_SSBU_bumped(orig) == p_S \o bump(SliceMid(orig, 4, 7))

\* 3) to SSBU, swing branch
swing_to_SSBU(orig) == p_S \o SliceMid(orig, 4, 7)

to_SSBU(orig, p, pname, do_swing, do_null_swing) ==
    IF do_null_swing /\ startswith(orig, p_SWG) /\ endswith(orig, s_shit)
    THEN null_to_SSBU(orig, p, pname)
    ELSE IF do_swing /\ startswith(orig, p_SWG) /\ endswith(orig, s_swing)
         THEN swing_to_SSBU(orig)
         ELSE None

\* 4) to Valve, SSBU-style null: the swing name that is looked up
valve_swing_name(orig, p, pname) ==
    IF p /\ startswith(pname, p_SWG) /\ endswith(pname, s_swing)
    THEN p_SWG \o bump(SliceMid(pname, 4, 7)) \o s_swing
    ELSE p_SWG \o SliceMid(orig, 2, 5) \o s_swing

\* variant: the null name is always built from the bone's own core
valve_null_name_own(orig, p, pname) == p_S \o SliceMid(orig, 4, 6) \o s_null

\* 4) to Valve, SSB4-style null: the null name that is looked up
valve_null_name(orig, p, pname) ==
    IF p /\ startswith(pname, p_S)
    THEN p_S \o bump(strip_null(SliceFrom(pname, 2))) \o s_null
    ELSE p_S \o SliceMid(orig, 4, 6) \o s_null

to_Valve(orig, p, pname, bone_map) ==
    IF startswith(orig, p_S) /\ endswith(orig, s_null)
    THEN DictGet(bone_map, valve_swing_name(orig, p, pname))
    ELSE IF startswith(orig, p_SWG) /\ endswith(orig, s_shit)
         THEN DictGet(bone_map, valve_null_name(orig, p, pname))
         ELSE None

\* variant: the fallback does not look at convertSwing
fallback_swing_always(new, orig, do_swing, bone_map) ==
    IF new = None /\ startswith(orig, p_S)
    THEN DictGet(bone_map, p_SWG \o SliceFrom(orig, 2) \o s_swing)
    ELSE new

\* 5) fallback swing
fallback_swing(new, orig, do_swing, bone_map) ==
    IF new = None /\ do_swing /\ startswith(orig, p_S)
    THEN DictGet(bone_map, p_SWG \o SliceFrom(orig, 2) \o s_swing)
    ELSE new

\* the if/elif chain 2) 3) 4) of the else branch
heuristic(orig, p, pname, target_format, do_swing, do_null_swing, bone_map) ==
    IF target_format = "SSB4" THEN to_SSB4(orig, p, pname, do_swing, do_null_swing)
    ELSE IF target_format = "SSBU" THEN to_SSBU(orig, p, pname, do_swing, do_null_swing)
    ELSE IF target_format \in {"HL2", "TF2"} /\ do_null_swing
         THEN to_Valve(orig, p, pname, bone_map)
         ELSE None

\* variant: the heuristics are tried before the direct map
resolve_heuristic_first(orig, p, pname, target_format, do_swing, do_null_swing, bone_map, trim_valvebiped) ==
    LET h == fallback_swing(
                 heuristic(orig, p, pname, target_format, do_swing, do_null_swing, bone_map),
                 orig, do_swing, bone_map)
    IN  IF h # None THEN h
        ELSE IF orig \in DOMAIN bone_map
             THEN direct_map(orig, target_format, bone_map, trim_valvebiped)
             ELSE None

\* the value of `new` when the loop body reaches "Apply rename"
resolve(orig, p, pname, target_format, do_swing, do_null_swing, bone_map, trim_valvebiped) ==
    IF orig \in DOMAIN bone_map
    THEN direct_map(orig, target_format, bone_map, trim_valvebiped)
    ELSE fallback_swing(
             heuristic(orig, p, pname, target_format, do_swing, do_null_swing, bone_map),
             orig, do_swing, bone_map)

\* variant: a name equal to the current one is applied and counted
applies_any(new, orig) == new # None

\* Apply rename: if new and new != orig
applies(new, orig) == new # None /\ new # orig

(***************************************************************************)
(* The skeleton and the depth sort                                         *)
(***************************************************************************)
Bones == {1, 2, 3, 4}

\* bone.parent is None
NoParent == 0

\* variant: every bone counts as a root
depth_flat(b, par) == 0

\* depth(b): number of parent hops up to a bone without parent
RECURSIVE depth(_, _)
depth(b, par) == IF par[b] = NoParent THEN 0 ELSE 1 + depth(par[b], par)

\* position of x in a list kept sorted by key: behind every element whose
\* key is not larger (list.sort is stable)
RECURSIVE InsertStable(_, _, _)
InsertStable(sorted, x, par) ==
    IF Len(sorted) = 0 THEN <<x>>
    ELSE IF depth(sorted[Len(sorted)], par) <= depth(x, par)
         THEN Append(sorted, x)
         ELSE Append(InsertStable(SubSeq(sorted, 1, Len(sorted) - 1), x, par),
                     sorted[Len(sorted)])

RECURSIVE SortPrefix(_, _, _)
SortPrefix(bs, n, par) ==
    IF n = 0 THEN <<>>
    ELSE InsertStable(SortPrefix(bs, n - 1, par), bs[n], par)

\* variant: the list is walked in enumeration order
unsorted(bs, par) == bs

\* bones.sort(key=depth)
sort_by_depth(bs, par) == SortPrefix(bs, Len(bs), par)

\* variant: the scope setting is not honoured
get_target_bones_all(armature_bones, select, scope) == armature_bones

\* get_target_bones(armature)
get_target_bones(armature_bones, select, scope) ==
    IF scope = "SELECTED"
    THEN LET sel(b) == select[b] IN SelectSeq(armature_bones, sel)
    ELSE armature_bones

\* bones = list(armature.bones) if ignore_scope else get_target_bones(armature)
collect_bones(armature_bones, select, scope, ignore_scope) ==
    IF ignore_scope THEN armature_bones
    ELSE get_target_bones(armature_bones, select, scope)

\* variant: the marker is the target format itself
scheme_marker_raw(target_format) == target_format

\* scene.ssb4_last_scheme after a successful pass
scheme_marker(target_format) ==
    IF target_format \in {"HL2", "TF2"} THEN "Valve" ELSE target_format

(***************************************************************************)
(* Bone names and the mapping table used as inputs                         *)
(***************************************************************************)
n_Hip  == <<"H", "i", "p">>
n_Leg0 == <<"L", "e", "g", "0">>

\* names of the third bone: swing-shaped in either scheme, with and without
\* trailing digits, a leading zero, a '_null' tail, and a table member
ParentPool ==
    { <<"S", "W", "G", "_", "L", "e", "g", "0", "_", "_", "s", "w", "i", "n", "g">>,   \* SWG_Leg0__swing
      <<"S", "_", "L", "e", "g", "0", "9">>,   \* S_Leg09
      <<"S", "_", "K", "n", "e", "e", "3", "_", "n", "u", "l", "l">>,   \* S_Knee3_null
      <<"S", "_", "T", "i", "p">>,   \* S_Tip
      <<"S", "W", "G", "_", "_", "s", "w", "i", "n", "g">>,   \* SWG__swing
      <<"S", "W", "G", "_", "H", "a", "i", "r", "0", "_", "_", "s", "w", "i", "n", "g">>,   \* SWG_Hair0__swing
      <<"S", "_", "S", "h", "i", "p", "p", "o", "1">> }  \* S_Shippo1 (table member)

\* names of the fourth bone
ChildPool ==
    { <<"S", "W", "G", "_", "L", "e", "g", "0", "_", "_", "s", "h", "i", "t">>,   \* SWG_Leg0__shit
      <<"S", "W", "G", "_", "A", "r", "m", "2", "_", "_", "s", "h", "i", "t">>,   \* SWG_Arm2__shit
      <<"S", "_", "L", "e", "g", "0", "_", "n", "u", "l", "l">>,   \* S_Leg0_null
      <<"S", "_", "A", "r", "m", "2">>,   \* S_Arm2
      <<"S", "W", "G", "_", "A", "r", "m", "2", "_", "_", "s", "w", "i", "n", "g">>,   \* SWG_Arm2__swing
      <<"S", "W", "G", "_", "T", "a", "i", "l", "2", "_", "_", "s", "h", "i", "t">>,   \* SWG_Tail2__shit (table member)
      <<"S", "_", "H", "a", "i", "r", "1", "_", "n", "u", "l", "l">> }  \* S_Hair1_null

\* CHARACTER_BONE_MAPS: character -> (clavicle flag, leg flag, entries); an
\* entry is (HL2, TF2, SSB4, SSBU)
CommonList ==
    << << <<"V", "a", "l", "v", "e", "B", "i", "p", "e", "d", ".", "h", "a", "i", "r", "1">>,
          <<"p", "r", "p", "_", "h", "a", "i", "r", "1">>,
          <<"S", "W", "G", "_", "H", "a", "i", "r", "1", "_", "_", "s", "w", "i", "n", "g">>,
          <<"S", "_", "H", "a", "i", "r", "1">> >> >>

MarioList ==
    << << <<"V", "a", "l", "v", "e", "B", "i", "p", "e", "d", ".", "t", "a", "i", "l", "1">>,
          <<"p", "r", "p", "_", "t", "a", "i", "l", "1">>,
          <<"S", "W", "G", "_", "T", "a", "i", "l", "1", "_", "_", "s", "w", "i", "n", "g">>,
          <<"S", "_", "S", "h", "i", "p", "p", "o", "1">> >>,
       << <<"V", "a", "l", "v", "e", "B", "i", "p", "e", "d", ".", "t", "a", "i", "l", "2">>,
          <<"p", "r", "p", "_", "t", "a", "i", "l", "2">>,
          <<"S", "W", "G", "_", "T", "a", "i", "l", "2", "_", "_", "s", "h", "i", "t">>,
          <<"S", "_", "S", "h", "i", "p", "p", "o", "2", "_", "n", "u", "l", "l">> >> >>

CHARACTER_BONE_MAPS ==
    [c \in {"Common", "Mario"} |->
        IF c = "Common" THEN <<FALSE, FALSE, CommonList>>
        ELSE <<TRUE, FALSE, MarioList>>]

\* CHARACTER_BONE_MAPS.get(character, (False, False, []))
character_maps(table, character) ==
    IF character \in DOMAIN table THEN table[character]
    ELSE <<FALSE, FALSE, <<>>>>

\* maps = common_list + char_list
concat_maps(table, character) ==
    character_maps(table, "Common")[3] \o character_maps(table, character)[3]

(***************************************************************************)
(* State                                                                   *)
(***************************************************************************)
VARIABLES
    name,                    \* bone.name of every bone of the armature
    parent,                  \* bone.parent (NoParent for a root)
    select,                  \* bone.select
    armature_bones,          \* the order in which armature.bones enumerates
    active_type,             \* type of scene.objects.active, "NONE" without one
    ssb4_scope,              \* scene.ssb4_scope
    ssb4_rename_swing,       \* scene.ssb4_rename_swing
    ssb4_rename_null_swing,  \* scene.ssb4_rename_null_swing
    ssb4_last_scheme,        \* scene.ssb4_last_scheme
    ssb4_character,          \* scene.ssb4_character
    trim_valvebiped,         \* prefs.trim_valvebiped
    character_bone_maps,     \* the table CHARACTER_BONE_MAPS names
    max_calls,               \* number of calls the behaviour makes
    pc,                      \* "idle" or "loop" (inside the for loop)
    target_format,           \* argument of the running call
    ignore_scope,            \* argument of the running call, FALSE outside one
    bones,                   \* the sorted list the loop walks
    idx,                     \* position of the loop in bones
    bone_map,                \* the dict built for the running call
    orig,                    \* orig of every bone the loop has processed
    renamed,                 \* the counter of the running call
    result,                  \* the tuple returned by the last call
    rule_renamed,            \* bones the last call renamed without the direct map
    calls,                   \* number of calls that have returned
    ssb4_count,              \* scene.ssb4_count
    ssb4_direction,          \* scene.ssb4_direction
    ssb4_override_lock,      \* scene.ssb4_override_lock
    valve_bone_format,       \* prefs.valve_bone_format
    geometry,                \* head, tail and roll of every bone
    ORIGINAL_BONE_DATA,      \* the snapshot of the armature, NoSnapshot without one
    self_character,          \* the character property of the Convert to SSB4 operator
    old_scheme,              \* the local old_scheme of UltiBones.execute
    op,                      \* position of the operator that is running, "none" outside one
    last_operator,           \* bl_idname of the operator that returned last
    prev_operator,           \* bl_idname of the operator that returned before it
    op_result,               \* what that operator returned
    snapshot_geometry        \* the geometry every bone had when the snapshot was taken

vars == <<name, parent, select, armature_bones, active_type, ssb4_scope,
          ssb4_rename_swing, ssb4_rename_null_swing, ssb4_last_scheme,
          ssb4_character, trim_valvebiped, character_bone_maps, max_calls,
          pc, target_format, ignore_scope, bones, idx, bone_map, orig, renamed,
          result, rule_renamed, calls, ssb4_count, ssb4_direction,
          ssb4_override_lock, valve_bone_format, geometry, ORIGINAL_BONE_DATA,
          self_character, old_scheme, op, last_operator, prev_operator,
          op_result, snapshot_geometry>>

skeleton == <<parent, select, armature_bones, active_type>>
settings == <<ssb4_scope, ssb4_rename_swing, ssb4_rename_null_swing,
              ssb4_character, trim_valvebiped>>
environment == <<character_bone_maps, max_calls>>
operators == <<ssb4_count, ssb4_direction, ssb4_override_lock, valve_bone_format,
               geometry, ORIGINAL_BONE_DATA, self_character, old_scheme, op,
               last_operator, prev_operator, op_result, snapshot_geometry>>

\* number of rename_bones calls in one behaviour
MaxCalls == 1

\* parent links: a chain, two children of the second bone, a second root
Shapes == { <<NoParent, 1, 2, 3>>, <<NoParent, 1, 2, 2>>, <<NoParent, 1, 2, NoParent>> }

\* enumeration orders of armature.bones: parents first, and the reverse
Orders == { <<1, 2, 3, 4>>, <<4, 3, 2, 1>> }

NoOrig == [b \in Bones |-> None]

\* ORIGINAL_BONE_DATA holds no entry for the armature
NoSnapshot == [bones |-> EmptyDict, last_scheme |-> ""]

\* head, tail and roll of bone b as the file holds them
Rest(b) == <<b, 0>>

\* the defaults of the properties, no snapshot, no operator has run
InitOperators ==
    /\ ssb4_count = 1
    /\ ssb4_direction = "START"
    /\ ssb4_override_lock = FALSE
    /\ valve_bone_format = "TF2"
    /\ geometry = [b \in Bones |-> Rest(b)]
    /\ ORIGINAL_BONE_DATA = NoSnapshot
    /\ self_character = "Common"
    /\ old_scheme = ""
    /\ op = "none"
    /\ last_operator = ""
    /\ prev_operator = ""
    /\ op_result = ""
    /\ snapshot_geometry = [b \in Bones |-> Rest(b)]

\* no call has been made
InitCall ==
    /\ pc = "idle"
    /\ target_format = "SSBU"
    /\ ignore_scope = FALSE
    /\ bones = <<>>
    /\ idx = 1
    /\ bone_map = EmptyDict
    /\ orig = NoOrig
    /\ renamed = 0
    /\ result = [ok |-> FALSE, count |-> 0, label |-> ""]
    /\ rule_renamed = {}
    /\ calls = 0

InitFrame == InitCall /\ InitOperators

Init ==
    /\ \E x \in ParentPool, y \in ChildPool :
           name = <<n_Hip, n_Leg0, x, y>>
    /\ parent \in Shapes
    /\ select = <<TRUE, TRUE, FALSE, TRUE>>
    /\ armature_bones \in Orders
    /\ active_type \in {"ARMATURE", "MESH", "NONE"}
    /\ active_type # "ARMATURE" =>
           /\ name[3] = CHOOSE x \in ParentPool : TRUE
           /\ name[4] = CHOOSE y \in ChildPool : TRUE
    /\ ssb4_scope \in {"ALL", "SELECTED"}
    /\ ssb4_rename_swing \in BOOLEAN
    /\ ssb4_rename_null_swing \in BOOLEAN
    /\ ssb4_last_scheme \in {"SSB4", "SSBU", "Valve"}
    /\ active_type = "ARMATURE" => ssb4_last_scheme = "SSBU"
    /\ ssb4_character = "Mario"
    /\ trim_valvebiped \in BOOLEAN
    /\ character_bone_maps = CHARACTER_BONE_MAPS
    /\ max_calls = MaxCalls
    /\ InitFrame

\* variant: the marker falls back to its default before the early return
RenameNoArmature_marks ==
    /\ pc = "idle"
    /\ calls < max_calls
    /\ active_type # "ARMATURE"
    /\ ssb4_last_scheme' = "SSBU"
    /\ result' = [ok |-> FALSE, count |-> 0, label |-> ""]
    /\ calls' = calls + 1
    /\ UNCHANGED <<name, skeleton, settings, environment, pc, target_format,
                   ignore_scope, bones, idx, bone_map, orig, renamed,
                   rule_renamed>>
    /\ UNCHANGED operators

\* rename_bones with no active object or an active object that is no armature
RenameNoArmature ==
    /\ pc = "idle"
    /\ calls < max_calls
    /\ active_type # "ARMATURE"
    /\ result' = [ok |-> FALSE, count |-> 0, label |-> ""]
    /\ calls' = calls + 1
    /\ UNCHANGED <<name, skeleton, settings, environment, ssb4_last_scheme, pc,
                   target_format, ignore_scope, bones, idx, bone_map, orig,
                   renamed, rule_renamed>>
    /\ UNCHANGED operators

\* rename_bones up to the for loop: collect, sort, build the map
rename_bones_begin(character, fmt, ignore) ==
    /\ pc = "idle"
    /\ calls < max_calls
    /\ active_type = "ARMATURE"
    /\ target_format' = fmt
    /\ ignore_scope' = ignore
    /\ bones' = sort_by_depth(
                    collect_bones(armature_bones, select, ssb4_scope, ignore),
                    parent)
    /\ bone_map' = build_bone_map(concat_maps(character_bone_maps, character),
                                  FmtIndex(fmt))
    /\ renamed' = 0
    /\ idx' = 1
    /\ orig' = NoOrig
    /\ pc' = "loop"
    /\ UNCHANGED <<name, skeleton, settings, environment, ssb4_last_scheme, result,
                   rule_renamed, calls>>

\* rename_bones called with the fighter selected in the scene
RenameBegin(fmt, ignore) ==
    /\ rename_bones_begin(ssb4_character, fmt, ignore)
    /\ UNCHANGED operators

\* variant: a bone for which no name is found ends the loop
RenameBone_abort ==
    /\ pc = "loop"
    /\ idx <= Len(bones)
    /\ LET bone  == bones[idx]
           o     == name[bone]
           p     == parent[bone] # NoParent
           pname == IF p THEN name[parent[bone]] ELSE None
           new   == resolve(o, p, pname, target_format, ssb4_rename_swing,
                            ssb4_rename_null_swing, bone_map, trim_valvebiped)
       IN  /\ orig' = [orig EXCEPT ![bone] = o]
           /\ IF applies(new, o)
              THEN /\ name' = [name EXCEPT ![bone] = new]
                   /\ renamed' = renamed + 1
              ELSE UNCHANGED <<name, renamed>>
           /\ idx' = IF new = None THEN Len(bones) + 1 ELSE idx + 1
    /\ UNCHANGED <<skeleton, settings, environment, ssb4_last_scheme, pc,
                   target_format, ignore_scope, bones, bone_map, result,
                   rule_renamed, calls>>
    /\ UNCHANGED operators

\* one iteration of `for bone in bones`
RenameBone ==
    /\ pc = "loop"
    /\ idx <= Len(bones)
    /\ LET bone  == bones[idx]
           o     == name[bone]
           p     == parent[bone] # NoParent
           pname == IF p THEN name[parent[bone]] ELSE None
           new   == resolve(o, p, pname, target_format, ssb4_rename_swing,
                            ssb4_rename_null_swing, bone_map, trim_valvebiped)
       IN  /\ orig' = [orig EXCEPT ![bone] = o]
           /\ IF applies(new, o)
              THEN /\ name' = [name EXCEPT ![bone] = new]
                   /\ renamed' = renamed + 1
              ELSE UNCHANGED <<name, renamed>>
    /\ idx' = idx + 1
    /\ UNCHANGED <<skeleton, settings, environment, ssb4_last_scheme, pc,
                   target_format, ignore_scope, bones, bone_map, result,
                   rule_renamed, calls>>
    /\ UNCHANGED operators

\* after the loop: set the last scheme and return
RenameEnd ==
    /\ pc = "loop"
    /\ idx > Len(bones)
    /\ ssb4_last_scheme' = scheme_marker(target_format)
    /\ result' = [ok |-> TRUE, count |-> renamed, label |-> "Armature"]
    /\ calls' = calls + 1
    /\ pc' = "idle"
    /\ ignore_scope' = FALSE
    /\ rule_renamed' = { b \in Bones : /\ orig[b] # None
                                       /\ orig[b] \notin DOMAIN bone_map
                                       /\ name[b] # orig[b] }
    /\ UNCHANGED <<name, skeleton, settings, environment, target_format, bones, idx,
                   bone_map, orig, renamed>>
    /\ UNCHANGED operators

Next ==
    \/ RenameNoArmature
    \/ \E fmt \in Formats, ignore \in BOOLEAN : RenameBegin(fmt, ignore)
    \/ RenameBone
    \/ RenameEnd

Spec == Init /\ [][Next]_vars

(***************************************************************************)
(* Sanity of the model                                                     *)
(***************************************************************************)
TypeOK ==
    /\ pc \in {"idle", "loop"}
    /\ target_format \in Formats
    /\ idx \in 1..(Len(bones) + 1)
    /\ renamed \in 0..Cardinality(Bones)
    /\ calls \in 0..max_calls
    /\ ssb4_last_scheme \in {"SSB4", "SSBU", "Valve"}
    /\ \A b \in Bones : name[b] # None

\* bone names stay pairwise distinct, as the armature requires
NamesDistinct == \A a, b \in Bones : a # b => name[a] # name[b]

(***************************************************************************)
(* Vocabulary of the properties                                            *)
(***************************************************************************)

\* s is pre, then some core (possibly empty), then suf
HasForm(s, pre, suf) ==
    /\ Len(s) >= Len(pre) + Len(suf)
    /\ \A i \in 1..Len(pre) : s[i] = pre[i]
    /\ \A i \in 1..Len(suf) : s[Len(s) - Len(suf) + i] = suf[i]

\* the core of a name of that form
CoreOf(s, pre, suf) == [i \in 1..(Len(s) - Len(pre) - Len(suf)) |-> s[Len(pre) + i]]

\* the loop is about to process bone b
AtBone(b) == pc = "loop" /\ idx <= Len(bones) /\ bones[idx] = b

\* the loop has processed bone b in the running or the last call
Processed(b) == \E i \in 1..(idx - 1) : i <= Len(bones) /\ bones[i] = b

Unmapped(b) == name[b] \notin DOMAIN bone_map

HasParent(b) == parent[b] # NoParent

\* the current name of the parent of b
ParentName(b) == name[parent[b]]

InNodeSet(b) == \E i \in 1..Len(bones) : bones[i] = b

Returned == pc = "idle" /\ calls > 0 /\ result.ok

(***************************************************************************)
(* C1  The scenario Hip -> Leg0 -> SWG_Leg0__swing -> SWG_Leg0__shit, no   *)
(* name a key of the bone map, target SSBU, all bones in the node set,     *)
(* both toggles on: the call leaves Hip, Leg0, S_Leg0, S_Leg1_null and     *)
(* returns the count 2.                                                    *)
(***************************************************************************)
C1_Start ==
    /\ Returned
    /\ target_format = "SSBU"
    /\ parent = <<NoParent, 1, 2, 3>>
    /\ Len(bones) = 4
    /\ ssb4_rename_swing /\ ssb4_rename_null_swing
    /\ orig = <<n_Hip, n_Leg0, <<"S", "W", "G", "_", "L", "e", "g", "0", "_", "_", "s", "w", "i", "n", "g">>, <<"S", "W", "G", "_", "L", "e", "g", "0", "_", "_", "s", "h", "i", "t">>>>
    /\ \A b \in Bones : orig[b] \notin DOMAIN bone_map

C1_End ==
    /\ name = <<n_Hip, n_Leg0, <<"S", "_", "L", "e", "g", "0">>, <<"S", "_", "L", "e", "g", "1", "_", "n", "u", "l", "l">>>>
    /\ result.count = 2

\* C1: from the start state of the scenario the pass ends with these names
\* and the count 2
C1_Scenario == C1_Start => C1_End

C1_Witness == C1_Start /\ C1_End

(***************************************************************************)
(* C2  In every pass a bone whose parent is in the node set comes after    *)
(* its parent in the processing order, so the parent has been processed    *)
(* when the bone reads the parent's name.                                  *)
(***************************************************************************)
\* C2: in the sorted list a parent stands before each of its children, and
\* has been processed when the loop reaches the child
C2_ParentFirst ==
    pc = "loop" =>
        \A j \in 1..Len(bones) :
            (HasParent(bones[j]) /\ InNodeSet(parent[bones[j]])) =>
                /\ \E i \in 1..(j - 1) : bones[i] = parent[bones[j]]
                /\ (idx >= j => orig[parent[bones[j]]] # None)

\* a child is about to read the name its parent got earlier in the same pass
C2_Witness ==
    /\ AtBone(4)
    /\ armature_bones = <<4, 3, 2, 1>>
    /\ parent[4] = 3
    /\ orig[3] # None
    /\ name[3] # orig[3]

(***************************************************************************)
(* C3  A bone whose current name is a key of the bone map gets the mapped  *)
(* value (with the Valve prefix trim when it applies), whatever its shape, *)
(* its parent's name and the toggles.                                      *)
(***************************************************************************)
C3_Mapped(b) ==
    IF target_format \in {"HL2", "TF2"} /\ trim_valvebiped
    THEN normalize_bone_name(bone_map[name[b]])
    ELSE bone_map[name[b]]

\* C3: the step on a bone whose name is a key assigns the mapped value
C3_DirectMapFirst ==
    [][\A b \in Bones :
          (AtBone(b) /\ ~Unmapped(b)) => name'[b] = C3_Mapped(b)]_vars

\* a table member of swing shape was renamed to its table value, which is
\* not what the swing rule builds
C3_Witness ==
    /\ pc = "loop"
    /\ target_format = "SSB4"
    /\ ssb4_rename_swing
    /\ Processed(3)
    /\ orig[3] = <<"S", "_", "S", "h", "i", "p", "p", "o", "1">>
    /\ name[3] = <<"S", "W", "G", "_", "T", "a", "i", "l", "1", "_", "_", "s", "w", "i", "n", "g">>

(***************************************************************************)
(* C4  Target SSBU, convertNullSwing on: an unmapped SWG_<core>__shit      *)
(* whose parent is currently named S_<pcore> becomes S_<b>_null, b being   *)
(* pcore without a trailing '_null' and with its trailing number plus one. *)
(***************************************************************************)
C4_B(pname) ==
    LET pcore == CoreOf(pname, p_S, <<>>)
    IN  bump(IF HasForm(pcore, <<>>, s_null) THEN CoreOf(pcore, <<>>, s_null) ELSE pcore)

\* C4: the step names the bone S_<b>_null from the parent's current name
C4_NullToSSBU ==
    [][\A b \in Bones :
          ( /\ AtBone(b)
            /\ target_format = "SSBU"
            /\ ssb4_rename_null_swing
            /\ Unmapped(b)
            /\ HasForm(name[b], p_SWG, s_shit)
            /\ HasParent(b)
            /\ HasForm(ParentName(b), p_S, <<>>) )
          => name'[b] = p_S \o C4_B(ParentName(b)) \o s_null]_vars

C4_Witness ==
    /\ pc = "loop"
    /\ target_format = "SSBU"
    /\ Processed(4)
    /\ parent[4] = 3
    /\ name[3] = <<"S", "_", "K", "n", "e", "e", "3", "_", "n", "u", "l", "l">>
    /\ orig[4] = <<"S", "W", "G", "_", "L", "e", "g", "0", "_", "_", "s", "h", "i", "t">>
    /\ name[4] = <<"S", "_", "K", "n", "e", "e", "4", "_", "n", "u", "l", "l">>

(***************************************************************************)
(* C5  Target SSB4, convertNullSwing on: an unmapped S_<core>_null whose   *)
(* parent is currently named SWG_<pcore>__swing becomes SWG_<b>__shit, b   *)
(* being pcore with its trailing number plus one.                          *)
(***************************************************************************)
\* C5: the step names the bone SWG_<b>__shit from the parent's current name
C5_NullToSSB4 ==
    [][\A b \in Bones :
          ( /\ AtBone(b)
            /\ target_format = "SSB4"
            /\ ssb4_rename_null_swing
            /\ Unmapped(b)
            /\ HasForm(name[b], p_S, s_null)
            /\ HasParent(b)
            /\ HasForm(ParentName(b), p_SWG, s_swing) )
          => name'[b] = p_SWG \o bump(CoreOf(ParentName(b), p_SWG, s_swing)) \o s_shit]_vars

\* the parent S_Leg09 was renamed first and the child is named from it
C5_Witness ==
    /\ pc = "loop"
    /\ target_format = "SSB4"
    /\ Processed(4)
    /\ parent[4] = 3
    /\ orig[3] = <<"S", "_", "L", "e", "g", "0", "9">>
    /\ name[3] = <<"S", "W", "G", "_", "L", "e", "g", "0", "9", "_", "_", "s", "w", "i", "n", "g">>
    /\ orig[4] = <<"S", "_", "L", "e", "g", "0", "_", "n", "u", "l", "l">>
    /\ name[4] = <<"S", "W", "G", "_", "L", "e", "g", "1", "0", "_", "_", "s", "h", "i", "t">>

(***************************************************************************)
(* C6  As stated: an unmapped SWG_Arm2__shit without a parent named        *)
(* SWG_*__swing becomes, for target SSBU with convertNullSwing on,         *)
(* S_Arm2_null. The code decides on another condition: the bone is named   *)
(* from its own core when it has no parent or when the parent's current    *)
(* name does not start with 'S_'.                                          *)
(***************************************************************************)
\* the name the parent of b had when the pass began
ParentOrig(b) ==
    IF orig[parent[b]] # None THEN orig[parent[b]] ELSE name[parent[b]]

C6_Case(b) ==
    /\ AtBone(b)
    /\ target_format = "SSBU"
    /\ ssb4_rename_null_swing
    /\ Unmapped(b)
    /\ name[b] = <<"S", "W", "G", "_", "A", "r", "m", "2", "_", "_", "s", "h", "i", "t">>

\* C6 as stated: without a parent that is, or was when the pass began, named
\* SWG_*__swing the bone becomes S_Arm2_null
C6_Original ==
    [][\A b \in Bones :
          ( /\ C6_Case(b)
            /\ \/ ~HasParent(b)
               \/ /\ ~HasForm(ParentName(b), p_SWG, s_swing)
                  /\ ~HasForm(ParentOrig(b), p_SWG, s_swing) )
          => name'[b] = <<"S", "_", "A", "r", "m", "2", "_", "n", "u", "l", "l">>]_vars

\* C6 amended: without a parent, or under a parent whose current name does
\* not start with S_, the bone becomes S_Arm2_null
C6_OwnCore ==
    [][\A b \in Bones :
          ( /\ C6_Case(b)
            /\ \/ ~HasParent(b)
               \/ ~HasForm(ParentName(b), p_S, <<>>) )
          => name'[b] = <<"S", "_", "A", "r", "m", "2", "_", "n", "u", "l", "l">>]_vars

\* the bone hangs under Leg0 and was named from its own core
C6_Witness ==
    /\ pc = "loop"
    /\ target_format = "SSBU"
    /\ Processed(4)
    /\ parent[4] = 2
    /\ name[2] = n_Leg0
    /\ orig[4] = <<"S", "W", "G", "_", "A", "r", "m", "2", "_", "_", "s", "h", "i", "t">>
    /\ name[4] = <<"S", "_", "A", "r", "m", "2", "_", "n", "u", "l", "l">>

C8_TakenByNullRule(b) ==
    ssb4_rename_null_swing /\ HasForm(name[b], p_S, <<>>) /\ HasForm(name[b], <<>>, s_null)

C9_SwingToSSBU ==
    [][\A b \in Bones :
          ( /\ AtBone(b)
            /\ target_format = "SSBU"
            /\ ssb4_rename_swing
            /\ Unmapped(b)
            /\ HasForm(name[b], p_SWG, s_swing) )
          => name'[b] = p_S \o CoreOf(name[b], p_SWG, s_swing)]_vars

\* under a parent named S_Leg09 the swing bone keeps its own number
C9_Witness ==
    /\ pc = "loop"
    /\ target_format = "SSBU"
    /\ Processed(4)
    /\ parent[4] = 3
    /\ name[3] = <<"S", "_", "L", "e", "g", "0", "9">>
    /\ orig[4] = <<"S", "W", "G", "_", "A", "r", "m", "2", "_", "_", "s", "w", "i", "n", "g">>
    /\ name[4] = <<"S", "_", "A", "r", "m", "2">>

(***************************************************************************)
(* C10 Target HL2 or TF2, convertNullSwing on: an unmapped S_<core>_null   *)
(* is looked up as SWG_<b>__swing, b being the bumped core of a parent     *)
(* currently named SWG_<pcore>__swing and the bone's own core otherwise;   *)
(* the bone gets the mapped value when that key exists.                    *)
(***************************************************************************)
C10_Key(b) ==
    IF HasParent(b) /\ HasForm(ParentName(b), p_SWG, s_swing)
    THEN p_SWG \o bump(CoreOf(ParentName(b), p_SWG, s_swing)) \o s_swing
    ELSE p_SWG \o CoreOf(name[b], p_S, s_null) \o s_swing

\* C10: the step assigns the table value of the reconstructed swing name
C10_ValveNull ==
    [][\A b \in Bones :
          ( /\ AtBone(b)
            /\ target_format \in {"HL2", "TF2"}
            /\ ssb4_rename_null_swing
            /\ Unmapped(b)
            /\ HasForm(name[b], p_S, s_null)
            /\ C10_Key(b) \in DOMAIN bone_map )
          => name'[b] = bone_map[C10_Key(b)]]_vars

(***************************************************************************)
(* Skeletons whose reconstructed names are keys of the table               *)
(***************************************************************************)
\* names of the third bone: a table member, two S_ names that are no key
\* (the swing name of S_Tail1 is one), a '_null' tail, a Scheme-A swing name
LookupParentPool ==
    { <<"S", "_", "S", "h", "i", "p", "p", "o", "1">>,   \* S_Shippo1 (table member)
      <<"S", "_", "L", "e", "g", "0", "9">>,   \* S_Leg09
      <<"S", "_", "T", "a", "i", "l", "1">>,   \* S_Tail1
      <<"S", "_", "K", "n", "e", "e", "3", "_", "n", "u", "l", "l">>,   \* S_Knee3_null
      <<"S", "W", "G", "_", "L", "e", "g", "0", "_", "_", "s", "w", "i", "n", "g">> }  \* SWG_Leg0__swing

\* names of the fourth bone: none is a key; S_Shippo2_null is one
LookupChildPool ==
    { <<"S", "W", "G", "_", "L", "e", "g", "0", "_", "_", "s", "h", "i", "t">>,   \* SWG_Leg0__shit
      <<"S", "W", "G", "_", "S", "h", "i", "p", "p", "o", "2", "_", "_", "s", "h", "i", "t">>,   \* SWG_Shippo2__shit
      <<"S", "_", "A", "r", "m", "2">>,   \* S_Arm2
      <<"S", "_", "H", "a", "i", "r", "1", "_", "n", "u", "l", "l">> }  \* S_Hair1_null

InitLookup ==
    /\ \E x \in LookupParentPool, y \in LookupChildPool :
           name = <<n_Hip, n_Leg0, x, y>>
    /\ parent \in Shapes
    /\ select = <<TRUE, TRUE, FALSE, TRUE>>
    /\ armature_bones = <<1, 2, 3, 4>>
    /\ active_type \in {"ARMATURE", "MESH"}
    /\ active_type # "ARMATURE" =>
           /\ name[3] = CHOOSE x \in LookupParentPool : TRUE
           /\ name[4] = CHOOSE y \in LookupChildPool : TRUE
    /\ ssb4_scope \in {"ALL", "SELECTED"}
    /\ ssb4_rename_swing \in BOOLEAN
    /\ ssb4_rename_null_swing \in BOOLEAN
    /\ ssb4_last_scheme = "SSBU"
    /\ ssb4_character = "Mario"
    /\ trim_valvebiped \in BOOLEAN
    /\ character_bone_maps = CHARACTER_BONE_MAPS
    /\ max_calls = MaxCalls
    /\ InitFrame

SpecLookup == InitLookup /\ [][Next]_vars

(***************************************************************************)
(* C11 Target HL2 or TF2, convertNullSwing on: an unmapped SWG_<core>__shit*)
(* is looked up as S_<b>_null, b being the bumped core of a parent whose   *)
(* current name starts with S_ (a '_null' tail dropped) and the bone's own *)
(* core otherwise; the bone gets the mapped value when that key exists and *)
(* keeps its name when it does not.                                        *)
(***************************************************************************)
C11_Key(b) ==
    IF HasParent(b) /\ HasForm(ParentName(b), p_S, <<>>)
    THEN p_S \o C4_B(ParentName(b)) \o s_null
    ELSE p_S \o CoreOf(name[b], p_SWG, s_shit) \o s_null

\* C11: the step assigns the table value of the reconstructed null name, or
\* leaves the name when the table has no such key
C11_ValveShit ==
    [][\A b \in Bones :
          ( /\ AtBone(b)
            /\ target_format \in {"HL2", "TF2"}
            /\ ssb4_rename_null_swing
            /\ Unmapped(b)
            /\ HasForm(name[b], p_SWG, s_shit) )
          => name'[b] = IF C11_Key(b) \in DOMAIN bone_map
                        THEN bone_map[C11_Key(b)]
                        ELSE name[b]]_vars

\* SWG_Leg0__shit under the unselected S_Shippo1 got the TF2 value of
\* S_Shippo2_null
C11_Witness ==
    /\ pc = "loop"
    /\ target_format = "TF2"
    /\ ssb4_rename_null_swing
    /\ Processed(4)
    /\ parent[4] = 3
    /\ name[3] = <<"S", "_", "S", "h", "i", "p", "p", "o", "1">>
    /\ orig[4] = <<"S", "W", "G", "_", "L", "e", "g", "0", "_", "_", "s", "h", "i", "t">>
    /\ name[4] = <<"p", "r", "p", "_", "t", "a", "i", "l", "2">>

(***************************************************************************)
(* C12 Fallback, any target: a bone whose name S_<core> is no key and for  *)
(* which no earlier rule produced a name gets, with convertSwing on, the   *)
(* table value of SWG_<core>__swing when that key exists; with            *)
(* convertSwing off such a bone keeps its name.                            *)
(***************************************************************************)
\* the rules 2) 3) 4) produce no name for bone b
C12_NoRule(b) ==
    heuristic(name[b], HasParent(b), IF HasParent(b) THEN ParentName(b) ELSE None,
              target_format, ssb4_rename_swing, ssb4_rename_null_swing,
              bone_map) = None

C12_Key(b) == p_SWG \o CoreOf(name[b], p_S, <<>>) \o s_swing

\* C12: the step assigns the table value of SWG_<core>__swing with
\* convertSwing on, and with convertSwing off a bone no rule named is left
C12_Fallback ==
    [][\A b \in Bones :
          ( /\ AtBone(b)
            /\ Unmapped(b)
            /\ C12_NoRule(b) )
          => /\ ( /\ ssb4_rename_swing
                  /\ HasForm(name[b], p_S, <<>>)
                  /\ C12_Key(b) \in DOMAIN bone_map )
                => name'[b] = bone_map[C12_Key(b)]
             /\ ~ssb4_rename_swing => name'[b] = name[b]]_vars

\* S_Tail1 is no key, SWG_Tail1__swing is: the bone got its HL2 value
C12_Witness ==
    /\ pc = "loop"
    /\ target_format = "HL2"
    /\ ssb4_rename_swing
    /\ Processed(3)
    /\ orig[3] = <<"S", "_", "T", "a", "i", "l", "1">>
    /\ name[3] = <<"V", "a", "l", "v", "e", "B", "i", "p", "e", "d", ".", "t", "a", "i", "l", "1">>

(***************************************************************************)
(* C13 A bone for which no rule produces a name, or the name it has, keeps *)
(* its name and is not counted: the count of a successful call is the      *)
(* number of bones of the node set whose name differs from the one they    *)
(* had before the call.                                                    *)
(***************************************************************************)
\* the bones among bs whose name is not the one the loop found
C13_Changed(bs) == { b \in bs : name[b] # orig[b] }

\* C13: inside the loop the counter is the number of processed bones whose
\* name changed, and the returned count is that number over the node set
C13_Count ==
    /\ pc = "loop" =>
           renamed = Cardinality(C13_Changed({ b \in Bones : Processed(b) }))
    /\ Returned =>
           result.count = Cardinality(C13_Changed({ b \in Bones : InNodeSet(b) }))

\* S_Shippo1 is mapped to itself and is not counted, the fourth bone is
C13_Witness ==
    /\ Returned
    /\ target_format = "SSBU"
    /\ InNodeSet(3)
    /\ orig[3] = <<"S", "_", "S", "h", "i", "p", "p", "o", "1">>
    /\ name[3] = <<"S", "_", "S", "h", "i", "p", "p", "o", "1">>
    /\ orig[4] = <<"S", "W", "G", "_", "A", "r", "m", "2", "_", "_", "s", "w", "i", "n", "g">>
    /\ name[4] = <<"S", "_", "A", "r", "m", "2">>
    /\ result.count = 1

(***************************************************************************)
(* C14 Without an active object, or with one that is no armature, a call   *)
(* returns (False, 0, "") and changes nothing: every bone name and the     *)
(* last-scheme marker keep their values.                                   *)
(***************************************************************************)
\* C14: a step taken without an active armature leaves names and marker and
\* leaves the failure tuple as the result
C14_NoArmature ==
    [][(pc = "idle" /\ active_type # "ARMATURE")
          => /\ name' = name
             /\ ssb4_last_scheme' = ssb4_last_scheme
             /\ result' = [ok |-> FALSE, count |-> 0, label |-> ""]]_vars

\* a call on a mesh has returned, the marker still is 'Valve'
C14_Witness ==
    /\ calls = 1
    /\ active_type = "MESH"
    /\ ssb4_last_scheme = "Valve"
    /\ result = [ok |-> FALSE, count |-> 0, label |-> ""]

(***************************************************************************)
(* C15 After every successful call, one that renames nothing included,     *)
(* the last-scheme marker is 'Valve' for the targets HL2 and TF2 and the   *)
(* target scheme otherwise.                                                *)
(***************************************************************************)
\* C15: on return the marker is the scheme family of the target
C15_Marker ==
    Returned =>
        /\ target_format \in {"HL2", "TF2"} => ssb4_last_scheme = "Valve"
        /\ target_format \in {"SSB4", "SSBU"} => ssb4_last_scheme = target_format

\* a TF2 pass that renamed no bone has set 'Valve'
C15_Witness ==
    /\ Returned
    /\ target_format = "TF2"
    /\ result.count = 0
    /\ ssb4_last_scheme = "Valve"

(***************************************************************************)
(* C16 A call writes bone names of the node set only: parent links and the *)
(* set of bones stay, and with scope SELECTED and ignore_scope false every *)
(* unselected bone keeps its name.                                         *)
(***************************************************************************)
\* the node set of the running call
C16_NodeSet ==
    IF ignore_scope \/ ssb4_scope # "SELECTED" THEN Bones
    ELSE { b \in Bones : select[b] }

\* C16: no step touches parents or the bone list, and a step changes names
\* of the node set only
C16_NamesOnly ==
    [][/\ parent' = parent
       /\ armature_bones' = armature_bones
       /\ DOMAIN name' = DOMAIN name
       /\ \A b \in Bones : name'[b] # name[b] => b \in C16_NodeSet]_vars

\* the selected S_Arm2 was renamed, the unselected S_Leg09 was not
C16_Witness ==
    /\ Returned
    /\ target_format = "SSB4"
    /\ ssb4_scope = "SELECTED"
    /\ ssb4_rename_swing
    /\ Len(bones) = 3
    /\ name[3] = <<"S", "_", "L", "e", "g", "0", "9">>
    /\ orig[4] = <<"S", "_", "A", "r", "m", "2">>
    /\ name[4] = <<"S", "W", "G", "_", "A", "r", "m", "2", "_", "_", "s", "w", "i", "n", "g">>

(***************************************************************************)
(* Tables with and without colliding keys, bones named by their members    *)
(***************************************************************************)
\* the shared entry
HeadEntry == << <<"V", "a", "l", "v", "e", "B", "i", "p", "e", "d", ".", "B", "i", "p", "0", "1", "_", "H", "e", "a", "d">>, <<"b", "i", "p", "_", "h", "e", "a", "d">>, <<"H", "e", "a", "d">>, <<"H", "e", "a", "d", "N">> >>

\* entries of the character: each member is a name of its own or a key of
\* the shared entry (its stripped HL2 alias, its TF2, SSBU or SSB4 member)
NeckEntries ==
    { <<m0, m1, m2, m3>> :
          m0 \in { <<"V", "a", "l", "v", "e", "B", "i", "p", "e", "d", ".", "B", "i", "p", "0", "1", "_", "N", "e", "c", "k">>, <<"B", "i", "p", "0", "1", "_", "H", "e", "a", "d">> },
          m1 \in { <<"b", "i", "p", "_", "n", "e", "c", "k">>, <<"b", "i", "p", "_", "h", "e", "a", "d">> },
          m2 \in { <<"N", "e", "c", "k">>, <<"H", "e", "a", "d", "N">> },
          m3 \in { <<"N", "e", "c", "k", "N">>, <<"H", "e", "a", "d">> } }

TablePool ==
    { [c \in {"Common", "Mario"} |->
          IF c = "Common" THEN <<FALSE, FALSE, <<HeadEntry>>>>
          ELSE <<FALSE, FALSE, <<e>>>>] : e \in NeckEntries }

\* names of the third bone: the members of the shared entry and the alias
TableParentPool ==
    { <<"V", "a", "l", "v", "e", "B", "i", "p", "e", "d", ".", "B", "i", "p", "0", "1", "_", "H", "e", "a", "d">>, <<"B", "i", "p", "0", "1", "_", "H", "e", "a", "d">>, <<"b", "i", "p", "_", "h", "e", "a", "d">>, <<"H", "e", "a", "d">>, <<"H", "e", "a", "d", "N">> }

\* names of the fourth bone
TableChildPool == { <<"V", "a", "l", "v", "e", "B", "i", "p", "e", "d", ".", "B", "i", "p", "0", "1", "_", "N", "e", "c", "k">>, <<"N", "e", "c", "k">>, <<"N", "e", "c", "k", "N">> }

InitTables ==
    /\ \E x \in TableParentPool, y \in TableChildPool :
           name = <<n_Hip, n_Leg0, x, y>>
    /\ parent = <<NoParent, 1, 2, 3>>
    /\ select = <<TRUE, TRUE, FALSE, TRUE>>
    /\ armature_bones = <<1, 2, 3, 4>>
    /\ active_type \in {"ARMATURE", "MESH"}
    /\ character_bone_maps \in TablePool
    /\ active_type # "ARMATURE" =>
           /\ name[3] = CHOOSE x \in TableParentPool : TRUE
           /\ name[4] = CHOOSE y \in TableChildPool : TRUE
           /\ character_bone_maps = CHOOSE t \in TablePool : TRUE
    /\ ssb4_scope = "ALL"
    /\ ssb4_rename_swing = TRUE
    /\ ssb4_rename_null_swing = TRUE
    /\ ssb4_last_scheme = "SSBU"
    /\ ssb4_character \in {"Mario", "Common", "Luigi"}
    /\ trim_valvebiped \in BOOLEAN
    /\ max_calls = MaxCalls
    /\ InitFrame

SpecTables == InitTables /\ [][Next]_vars

\* the concatenated table of the running call and its target column
TableOfCall == concat_maps(character_bone_maps, ssb4_character)
TargetCol == FmtIndex(target_format) + 1

\* the keys an entry contributes: its members and their stripped forms
KeysOf(entry) ==
    { entry[j] : j \in 1..Len(entry) } \cup
    { CoreOf(entry[j], p_ValveBiped, <<>>) :
          j \in { i \in 1..Len(entry) : HasForm(entry[i], p_ValveBiped, <<>>) } }

(***************************************************************************)
(* C17 Idempotence of direct map: a bone whose name already is the         *)
(* target-scheme member of a table entry keeps that name when renamed to   *)
(* the same target, and is not counted.                                    *)
(***************************************************************************)
\* C17 as stated, for every table: the step leaves a bone named by the
\* target member of some entry
C17_Original ==
    [][\A b \in Bones :
          ( /\ AtBone(b)
            /\ \E e \in 1..Len(TableOfCall) : name[b] = TableOfCall[e][TargetCol] )
          => /\ name'[b] = name[b]
             /\ renamed' = renamed]_vars

\* the target member as the pass writes it
C17_Written(member) ==
    IF target_format \in {"HL2", "TF2"} /\ trim_valvebiped
       /\ HasForm(member, p_ValveBiped, <<>>)
    THEN CoreOf(member, p_ValveBiped, <<>>)
    ELSE member

\* every entry that has the name n among its keys has the target member of e
C17_SameTarget(n, e) ==
    \A f \in 1..Len(TableOfCall) :
        n \in KeysOf(TableOfCall[f])
            => TableOfCall[f][TargetCol] = TableOfCall[e][TargetCol]

\* C17 amended: the step leaves a bone named by the target member as the pass
\* writes it, when every entry having that name as a key has the same target
C17_Idempotent ==
    [][\A b \in Bones :
          ( /\ AtBone(b)
            /\ \E e \in 1..Len(TableOfCall) :
                   /\ name[b] = C17_Written(TableOfCall[e][TargetCol])
                   /\ C17_SameTarget(name[b], e) )
          => /\ name'[b] = name[b]
             /\ renamed' = renamed]_vars

\* target HL2 with trimming on: the bone named Bip01_Head was processed and
\* kept its name
C17_Witness ==
    /\ pc = "loop"
    /\ target_format = "HL2"
    /\ trim_valvebiped
    /\ ssb4_character = "Luigi"
    /\ Processed(3)
    /\ orig[3] = <<"B", "i", "p", "0", "1", "_", "H", "e", "a", "d">>
    /\ name[3] = <<"B", "i", "p", "0", "1", "_", "H", "e", "a", "d">>

(***************************************************************************)
(* C20 build_bone_map on a table without key collisions maps every member  *)
(* of every entry, and the 'ValveBiped.'-stripped form of every member     *)
(* with that prefix, to the entry's member of the target column as stored; *)
(* ValveBiped.Bip01_Head and Bip01_Head resolve to the same value.         *)
(***************************************************************************)
\* no key belongs to two entries
C20_NoCollision ==
    \A e, f \in 1..Len(TableOfCall) :
        e # f => KeysOf(TableOfCall[e]) \cap KeysOf(TableOfCall[f]) = {}

\* C20: the map built for the call holds, for every key of every entry, the
\* entry's target member with its prefix
C20_BuildMap ==
    (pc = "loop" /\ C20_NoCollision) =>
        /\ \A e \in 1..Len(TableOfCall) : \A k \in KeysOf(TableOfCall[e]) :
               /\ k \in DOMAIN bone_map
               /\ bone_map[k] = TableOfCall[e][TargetCol]
        /\ DOMAIN bone_map =
               UNION { KeysOf(TableOfCall[e]) : e \in 1..Len(TableOfCall) }
        /\ <<"V", "a", "l", "v", "e", "B", "i", "p", "e", "d", ".", "B", "i", "p", "0", "1", "_", "H", "e", "a", "d">> \in DOMAIN bone_map =>
               /\ <<"B", "i", "p", "0", "1", "_", "H", "e", "a", "d">> \in DOMAIN bone_map
               /\ bone_map[<<"B", "i", "p", "0", "1", "_", "H", "e", "a", "d">>] = bone_map[<<"V", "a", "l", "v", "e", "B", "i", "p", "e", "d", ".", "B", "i", "p", "0", "1", "_", "H", "e", "a", "d">>]

\* a collision-free table of two entries, target HL2: the alias Bip01_Head
\* resolves to the member with its prefix
C20_Witness ==
    /\ pc = "loop"
    /\ target_format = "HL2"
    /\ ssb4_character = "Mario"
    /\ C20_NoCollision
    /\ bone_map[<<"B", "i", "p", "0", "1", "_", "H", "e", "a", "d">>] = <<"V", "a", "l", "v", "e", "B", "i", "p", "e", "d", ".", "B", "i", "p", "0", "1", "_", "H", "e", "a", "d">>
    /\ bone_map[<<"B", "i", "p", "0", "1", "_", "N", "e", "c", "k">>] = <<"V", "a", "l", "v", "e", "B", "i", "p", "e", "d", ".", "B", "i", "p", "0", "1", "_", "N", "e", "c", "k">>

(***************************************************************************)
(* Parents whose core ranges over all short strings of letters and digits  *)
(***************************************************************************)
\* length of the cores that are enumerated
MaxCoreLen == 3

CoreAlphabet == {"a", "0", "9"}

Cores ==
    UNION { [1..n -> CoreAlphabet] : n \in 0..MaxCoreLen }
        \cup { <<"T", "i", "p">>, <<"T", "i", "p", "3">>, <<"L", "e", "g", "9">> }

InitBump ==
    /\ \E core \in Cores :
           \E x \in { p_SWG \o core \o s_swing, p_S \o core },
              y \in { <<"S", "_", "L", "e", "g", "0", "_", "n", "u", "l", "l">>, <<"S", "W", "G", "_", "L", "e", "g", "0", "_", "_", "s", "h", "i", "t">> } :
               name = <<n_Hip, n_Leg0, x, y>>
    /\ parent = <<NoParent, 1, 2, 3>>
    /\ select = <<TRUE, TRUE, FALSE, TRUE>>
    /\ armature_bones = <<1, 2, 3, 4>>
    /\ active_type \in {"ARMATURE", "MESH"}
    /\ active_type # "ARMATURE" =>
           name = <<n_Hip, n_Leg0, p_S, <<"S", "_", "L", "e", "g", "0", "_", "n", "u", "l", "l">>>>
    /\ ssb4_scope = "ALL"
    /\ ssb4_rename_swing \in BOOLEAN
    /\ ssb4_rename_null_swing = TRUE
    /\ ssb4_last_scheme = "SSBU"
    /\ ssb4_character = "Mario"
    /\ trim_valvebiped = FALSE
    /\ character_bone_maps = CHARACTER_BONE_MAPS
    /\ max_calls = MaxCalls
    /\ InitFrame

SpecBump == InitBump /\ [][Next]_vars

(***************************************************************************)
(* C19 Numeric suffix bump of the parent-based branches: a core without    *)
(* trailing decimal digits is returned as it is ("Tip" -> "Tip");          *)
(* otherwise the longest trailing run of digits is read as an integer, 1   *)
(* is added, and the result is the prefix followed by the new number       *)
(* without padding ("Tip3" -> "Tip4", "Leg9" -> "Leg10", "09" -> "10").    *)
(***************************************************************************)
\* number of digits at the end of s
C19_Run(s) ==
    CHOOSE k \in 0..Len(s) :
        /\ \A i \in (Len(s) - k + 1)..Len(s) : IsDigit(s[i])
        /\ k < Len(s) => ~IsDigit(s[Len(s) - k])

\* the number a string of digits denotes
RECURSIVE C19_Value(_)
C19_Value(d) ==
    IF Len(d) = 0 THEN 0
    ELSE DigitVal(d[1]) * 10 ^ (Len(d) - 1) + C19_Value(Tail(d))

\* out is core with its trailing number increased by one
C19_IsBump(core, out) ==
    LET k   == C19_Run(core)
        pre == SubSeq(core, 1, Len(core) - k)
        num == SubSeq(core, Len(core) - k + 1, Len(core))
    IN  IF k = 0 THEN out = core
        ELSE /\ HasForm(out, pre, <<>>)
             /\ LET d == CoreOf(out, pre, <<>>)
                IN  /\ Len(d) >= 1
                    /\ \A i \in 1..Len(d) : IsDigit(d[i])
                    /\ Len(d) > 1 => d[1] # "0"
                    /\ C19_Value(d) = C19_Value(num) + 1

\* the four examples
C19_Examples(core, out) ==
    /\ core = <<"T", "i", "p">> => out = <<"T", "i", "p">>
    /\ core = <<"T", "i", "p", "3">> => out = <<"T", "i", "p", "4">>
    /\ core = <<"L", "e", "g", "9">> => out = <<"L", "e", "g", "1", "0">>
    /\ core = <<"0", "9">> => out = <<"1", "0">>

\* C19: the core a null-swing bone gets from its parent, towards SSB4 and
\* towards SSBU, is the bumped core of the parent
C19_Bump ==
    [][\A b \in Bones :
          ( /\ AtBone(b)
            /\ ssb4_rename_null_swing
            /\ Unmapped(b)
            /\ HasParent(b) )
          => /\ ( /\ target_format = "SSB4"
                  /\ HasForm(name[b], p_S, s_null)
                  /\ HasForm(ParentName(b), p_SWG, s_swing) )
                => /\ HasForm(name'[b], p_SWG, s_shit)
                   /\ C19_IsBump(CoreOf(ParentName(b), p_SWG, s_swing),
                                 CoreOf(name'[b], p_SWG, s_shit))
                   /\ C19_Examples(CoreOf(ParentName(b), p_SWG, s_swing),
                                   CoreOf(name'[b], p_SWG, s_shit))
             /\ ( /\ target_format = "SSBU"
                  /\ HasForm(name[b], p_SWG, s_shit)
                  /\ HasForm(ParentName(b), p_S, <<>>)
                  /\ ~HasForm(ParentName(b), p_S, s_null) )
                => /\ HasForm(name'[b], p_S, s_null)
                   /\ C19_IsBump(CoreOf(ParentName(b), p_S, <<>>),
                                 CoreOf(name'[b], p_S, s_null))
                   /\ C19_Examples(CoreOf(ParentName(b), p_S, <<>>),
                                   CoreOf(name'[b], p_S, s_null))]_vars

\* under SWG_09__swing the bone S_Leg0_null became SWG_10__shit
C19_Witness ==
    /\ pc = "loop"
    /\ target_format = "SSB4"
    /\ Processed(4)
    /\ name[3] = <<"S", "W", "G", "_", "0", "9", "_", "_", "s", "w", "i", "n", "g">>
    /\ orig[4] = <<"S", "_", "L", "e", "g", "0", "_", "n", "u", "l", "l">>
    /\ name[4] = <<"S", "W", "G", "_", "1", "0", "_", "_", "s", "h", "i", "t">>

(***************************************************************************)
(* Two calls in a row on a null-swing bone under a primary swing bone      *)
(***************************************************************************)
\* names of the third bone, the parent of S_Leg0_null
TwiceParentPool == { <<"S", "_", "L", "e", "g", "0">>, <<"S", "_", "L", "e", "g", "1">>, <<"S", "_", "L", "e", "g", "0", "9">> }

InitTwice ==
    /\ \E x \in TwiceParentPool :
           name = <<n_Hip, n_Leg0, x, <<"S", "_", "L", "e", "g", "0", "_", "n", "u", "l", "l">>>>
    /\ parent = <<NoParent, 1, 2, 3>>
    /\ select = <<TRUE, TRUE, FALSE, TRUE>>
    /\ armature_bones = <<1, 2, 3, 4>>
    /\ active_type \in {"ARMATURE", "MESH"}
    /\ ssb4_scope = "ALL"
    /\ ssb4_rename_swing \in BOOLEAN
    /\ ssb4_rename_null_swing \in BOOLEAN
    /\ ssb4_last_scheme = "SSBU"
    /\ ssb4_character = "Mario"
    /\ trim_valvebiped = FALSE
    /\ character_bone_maps = CHARACTER_BONE_MAPS
    /\ max_calls = MaxCalls + 1
    /\ InitFrame

SpecTwice == InitTwice /\ [][Next]_vars

(***************************************************************************)
(* C18 Non-round-trip of null-swing names: with both toggles on, the       *)
(* unmapped S_Leg0_null under its primary-swing parent, converted to SSB4  *)
(* and then to SSBU, is not S_Leg0_null again; the two conversions yield   *)
(* S_Leg2_null.                                                            *)
(***************************************************************************)
\* the loop of a pass to SSBU is over, the pass before it went to SSB4, and
\* S_Leg0_null was converted both times
C18_AfterBoth ==
    /\ pc = "loop"
    /\ idx > Len(bones)
    /\ calls = 1
    /\ ssb4_last_scheme = "SSB4"
    /\ target_format = "SSBU"
    /\ ssb4_rename_swing
    /\ ssb4_rename_null_swing
    /\ HasForm(orig[4], p_SWG, s_shit)

\* C18 as stated: under the parent S_Leg0 the two conversions yield
\* S_Leg2_null
C18_Original ==
    (C18_AfterBoth /\ name[3] = <<"S", "_", "L", "e", "g", "0">>)
        => /\ name[4] # <<"S", "_", "L", "e", "g", "0", "_", "n", "u", "l", "l">>
           /\ name[4] = <<"S", "_", "L", "e", "g", "2", "_", "n", "u", "l", "l">>

\* C18 amended: each conversion names the bone from the number of the parent
\* plus one, so under S_Leg0 they yield SWG_Leg1__shit and then S_Leg1_null,
\* and under S_Leg1 SWG_Leg2__shit and then S_Leg2_null
C18_NonRoundTrip ==
    /\ (C18_AfterBoth /\ name[3] = <<"S", "_", "L", "e", "g", "0">>)
           => /\ orig[4] = <<"S", "W", "G", "_", "L", "e", "g", "1", "_", "_", "s", "h", "i", "t">>
              /\ name[4] = <<"S", "_", "L", "e", "g", "1", "_", "n", "u", "l", "l">>
              /\ name[4] # <<"S", "_", "L", "e", "g", "0", "_", "n", "u", "l", "l">>
    /\ (C18_AfterBoth /\ name[3] = <<"S", "_", "L", "e", "g", "1">>)
           => /\ orig[4] = <<"S", "W", "G", "_", "L", "e", "g", "2", "_", "_", "s", "h", "i", "t">>
              /\ name[4] = <<"S", "_", "L", "e", "g", "2", "_", "n", "u", "l", "l">>

\* both conversions were made under S_Leg0
C18_Witness ==
    /\ C18_AfterBoth
    /\ name[3] = <<"S", "_", "L", "e", "g", "0">>
    /\ orig[3] = <<"S", "W", "G", "_", "L", "e", "g", "0", "_", "_", "s", "w", "i", "n", "g">>
    /\ name[4] = <<"S", "_", "L", "e", "g", "1", "_", "n", "u", "l", "l">>

(***************************************************************************)
(* C21 Last-write-wins: a key (a member or a stripped alias) that occurs   *)
(* in several entries of the concatenated table, shared entries first,     *)
(* holds the target member of the last such entry, so that an entry of the *)
(* character overrides a shared entry.                                     *)
(***************************************************************************)
\* the last entry of the table of the call that has k among its keys
C21_LastEntry(k) ==
    CHOOSE e \in 1..Len(TableOfCall) :
        /\ k \in KeysOf(TableOfCall[e])
        /\ \A f \in (e + 1)..Len(TableOfCall) : k \notin KeysOf(TableOfCall[f])

\* C21: the map built for the call holds for every key the target member of
\* the last entry with that key
C21_LastWriteWins ==
    pc = "loop" =>
        \A e \in 1..Len(TableOfCall) : \A k \in KeysOf(TableOfCall[e]) :
            /\ k \in DOMAIN bone_map
            /\ bone_map[k] = TableOfCall[C21_LastEntry(k)][TargetCol]

\* bip_head is the TF2 member of the shared entry and of the entry of the
\* character: its SSBU value is the one of the character
C21_Witness ==
    /\ pc = "loop"
    /\ target_format = "SSBU"
    /\ ssb4_character = "Mario"
    /\ TableOfCall[1][2] = <<"b", "i", "p", "_", "h", "e", "a", "d">>
    /\ TableOfCall[2][2] = <<"b", "i", "p", "_", "h", "e", "a", "d">>
    /\ TableOfCall[1][4] = <<"H", "e", "a", "d", "N">>
    /\ TableOfCall[2][4] = <<"N", "e", "c", "k", "N">>
    /\ bone_map[<<"b", "i", "p", "_", "h", "e", "a", "d">>] = <<"N", "e", "c", "k", "N">>

(***************************************************************************)
(* C22 With the preference 'Trim ValveBiped.' on, no bone renamed by a     *)
(* pass to HL2 (by direct map, by a Valve null-swing lookup or by the      *)
(* swing fallback lookup) has a name that starts with 'ValveBiped.'.       *)
(***************************************************************************)
\* C22: a bone the running or last HL2 pass renamed carries no prefix
C22_TrimSafe ==
    (target_format = "HL2" /\ trim_valvebiped) =>
        \A b \in Bones :
            (Processed(b) /\ name[b] # orig[b])
                => ~HasForm(name[b], p_ValveBiped, <<>>)

(***************************************************************************)
(* Two calls in a row on swing and null-swing bones of either scheme       *)
(***************************************************************************)
\* names of the third bone: S_Tail1 is no key, its SSB4 name is one
RepeatParentPool ==
    { <<"S", "_", "L", "e", "g", "0">>, <<"S", "W", "G", "_", "L", "e", "g", "0", "_", "_", "s", "w", "i", "n", "g">>, <<"S", "_", "T", "a", "i", "l", "1">>, <<"S", "_", "S", "h", "i", "p", "p", "o", "1">> }

\* names of the fourth bone
RepeatChildPool ==
    { <<"S", "_", "L", "e", "g", "0", "_", "n", "u", "l", "l">>, <<"S", "W", "G", "_", "L", "e", "g", "0", "_", "_", "s", "h", "i", "t">>, <<"S", "W", "G", "_", "A", "r", "m", "2", "_", "_", "s", "w", "i", "n", "g">> }

InitRepeat ==
    /\ \E x \in RepeatParentPool, y \in RepeatChildPool :
           name = <<n_Hip, n_Leg0, x, y>>
    /\ parent = <<NoParent, 1, 2, 3>>
    /\ select = <<TRUE, TRUE, FALSE, TRUE>>
    /\ armature_bones = <<1, 2, 3, 4>>
    /\ active_type \in {"ARMATURE", "MESH"}
    /\ active_type # "ARMATURE" =>
           /\ name[3] = CHOOSE x \in RepeatParentPool : TRUE
           /\ name[4] = CHOOSE y \in RepeatChildPool : TRUE
    /\ ssb4_scope \in {"ALL", "SELECTED"}
    /\ ssb4_rename_swing \in BOOLEAN
    /\ ssb4_rename_null_swing \in BOOLEAN
    /\ ssb4_last_scheme = "SSBU"
    /\ ssb4_character = "Mario"
    /\ trim_valvebiped = FALSE
    /\ character_bone_maps = CHARACTER_BONE_MAPS
    /\ max_calls = MaxCalls + 1
    /\ InitFrame

SpecRepeat == InitRepeat /\ [][Next]_vars

(***************************************************************************)
(* C23 The pass is safe to run repeatedly: for the targets SSB4 and SSBU a *)
(* second call right after a first one with the same target, table, scope  *)
(* and toggles renames none of the bones the first call renamed by a swing *)
(* or null-swing rule.                                                     *)
(***************************************************************************)
\* the running call follows a successful call to the same target
C23_SameTargetAgain ==
    /\ calls >= 1
    /\ result.ok
    /\ target_format \in {"SSB4", "SSBU"}
    /\ ssb4_last_scheme = target_format

\* C23: a step of the second call leaves every bone the first call renamed
\* by a rule
C23_RepeatSafe ==
    [][\A b \in Bones :
          (AtBone(b) /\ C23_SameTargetAgain /\ b \in rule_renamed)
              => name'[b] = name[b]]_vars

\* the second pass to SSB4 has processed SWG_Leg0__swing and SWG_Leg1__shit,
\* both named by the first, and left them
C23_Witness ==
    /\ pc = "loop"
    /\ C23_SameTargetAgain
    /\ target_format = "SSB4"
    /\ rule_renamed = {3, 4}
    /\ Processed(3) /\ Processed(4)
    /\ name[3] = <<"S", "W", "G", "_", "L", "e", "g", "0", "_", "_", "s", "w", "i", "n", "g">>
    /\ name[4] = <<"S", "W", "G", "_", "L", "e", "g", "1", "_", "_", "s", "h", "i", "t">>

(***************************************************************************)
(* A call that has started runs on: the loop and the return are sequential *)
(* code, so each of them is taken when it stays enabled.                   *)
(***************************************************************************)
\* the three forests over one set of names, enumerated children first
InitForest ==
    /\ name = <<n_Hip, n_Leg0, <<"S", "_", "L", "e", "g", "0", "9">>, <<"S", "W", "G", "_", "L", "e", "g", "0", "_", "_", "s", "h", "i", "t">>>>
    /\ parent \in Shapes
    /\ select = <<TRUE, TRUE, FALSE, TRUE>>
    /\ armature_bones = <<4, 3, 2, 1>>
    /\ active_type \in {"ARMATURE", "MESH"}
    /\ ssb4_scope \in {"ALL", "SELECTED"}
    /\ ssb4_rename_swing = TRUE
    /\ ssb4_rename_null_swing = TRUE
    /\ ssb4_last_scheme = "SSBU"
    /\ ssb4_character = "Mario"
    /\ trim_valvebiped = FALSE
    /\ character_bone_maps = CHARACTER_BONE_MAPS
    /\ max_calls = MaxCalls
    /\ InitFrame

SpecForestFair ==
    /\ InitForest
    /\ [][Next]_vars
    /\ WF_vars(RenameBone)
    /\ WF_vars(RenameEnd)

(***************************************************************************)
(* C24 On a finite forest of bones a call terminates after processing each *)
(* bone of the node set exactly once; a bone that matches no rule or whose *)
(* lookup fails is skipped and the bones behind it are still processed.    *)
(***************************************************************************)
\* the list the loop walks holds every bone of the node set once
C24_EachOnce ==
    /\ \A i, j \in 1..Len(bones) : bones[i] = bones[j] => i = j
    /\ { bones[i] : i \in 1..Len(bones) } = C16_NodeSet

\* C24: the loop walks a duplicate-free list of the node set one bone at a
\* time, recording the bone it is at, and every call that entered the loop
\* returns with every bone of the list processed
C24_Terminates ==
    /\ [](pc = "loop" => C24_EachOnce)
    /\ [][pc = "loop" /\ pc' = "loop"
             => /\ idx' = idx + 1
                /\ orig'[bones[idx]] = name[bones[idx]]
                /\ \A b \in Bones \ {bones[idx]} : orig'[b] = orig[b]]_vars
    /\ (pc = "loop") ~> (Returned /\ \A b \in Bones : InNodeSet(b) => orig[b] # None)

\* S_Leg09 matched no rule and its lookup failed; the bone behind it was
\* renamed and the call returned
C24_Witness ==
    /\ Returned
    /\ target_format = "SSBU"
    /\ ssb4_rename_swing
    /\ parent[4] = 3
    /\ orig[3] = <<"S", "_", "L", "e", "g", "0", "9">>
    /\ name[3] = <<"S", "_", "L", "e", "g", "0", "9">>
    /\ orig[4] = <<"S", "W", "G", "_", "L", "e", "g", "0", "_", "_", "s", "h", "i", "t">>
    /\ name[4] = <<"S", "_", "L", "e", "g", "1", "0", "_", "n", "u", "l", "l">>

(***************************************************************************)
(* C25 With 'Convert Null Bones' off, no bone whose name is no key and has *)
(* a null-swing shape (S_*_null or SWG_*__shit) is renamed by a conversion *)
(* to SSB4 or SSBU, whatever the value of 'Convert Swing Bones'.           *)
(***************************************************************************)
\* C25: with the toggle off the step leaves an unmapped null-swing bone
C25_NullToggle ==
    [][\A b \in Bones :
          ( /\ AtBone(b)
            /\ target_format \in {"SSB4", "SSBU"}
            /\ ~ssb4_rename_null_swing
            /\ Unmapped(b)
            /\ \/ HasForm(name[b], p_S, s_null)
               \/ HasForm(name[b], p_SWG, s_shit) )
          => name'[b] = name[b]]_vars

(***************************************************************************)
(* Two children of one swing bone, and two bones named by one table entry  *)
(***************************************************************************)
\* names of the third bone: a Scheme-A null-swing name, a member of an entry
SiblingPoolA == { <<"S", "W", "G", "_", "L", "e", "g", "0", "_", "_", "s", "h", "i", "t">>, <<"S", "_", "S", "h", "i", "p", "p", "o", "1">> }

\* names of the fourth bone: another null-swing name, another member of the
\* same entry
SiblingPoolB == { <<"S", "W", "G", "_", "A", "r", "m", "2", "_", "_", "s", "h", "i", "t">>, <<"S", "W", "G", "_", "T", "a", "i", "l", "1", "_", "_", "s", "w", "i", "n", "g">> }

InitSiblings ==
    /\ \E x \in SiblingPoolA, y \in SiblingPoolB :
           name = <<n_Hip, <<"S", "_", "L", "e", "g", "0">>, x, y>>
    /\ parent = <<NoParent, 1, 2, 2>>
    /\ select = <<TRUE, TRUE, FALSE, TRUE>>
    /\ armature_bones \in Orders
    /\ active_type \in {"ARMATURE", "MESH"}
    /\ ssb4_scope \in {"ALL", "SELECTED"}
    /\ ssb4_rename_swing \in BOOLEAN
    /\ ssb4_rename_null_swing \in BOOLEAN
    /\ ssb4_last_scheme = "SSBU"
    /\ ssb4_character = "Mario"
    /\ trim_valvebiped = FALSE
    /\ character_bone_maps = CHARACTER_BONE_MAPS
    /\ max_calls = MaxCalls
    /\ InitFrame

SpecSiblings == InitSiblings /\ [][Next]_vars

(***************************************************************************)
(* C26 Name uniqueness is preserved by the rules of the engine: bones with *)
(* pairwise distinct names before a call have pairwise distinct names      *)
(* computed and assigned by it, for example two null-swing children of one *)
(* swing parent, or two bones named by different members of one entry.     *)
(***************************************************************************)
\* C26: the names of the skeleton, distinct before the call, stay distinct
C26_Unique ==
    \A a, b \in Bones : a # b => name[a] # name[b]

(***************************************************************************)
(* C27 Determinism with respect to the enumeration order: for a fixed      *)
(* skeleton, table, target, scope and toggles the final name of every bone *)
(* and the count are the same for every order in which the armature        *)
(* enumerates its bones.                                                   *)
(***************************************************************************)
\* the name bone b had when the last call started
C27_Start(b) == IF InNodeSet(b) THEN orig[b] ELSE name[b]

\* the names after the bones k, k + 1, ... of the node set are resolved in
\* the order of their numbers, which puts every parent before its children
\* whatever the enumeration order is
RECURSIVE C27_Ref(_, _)
C27_Ref(k, nm) ==
    IF k \notin Bones THEN nm
    ELSE IF ~InNodeSet(k) THEN C27_Ref(k + 1, nm)
         ELSE LET p   == parent[k] # NoParent
                  new == resolve(nm[k], p, IF p THEN nm[parent[k]] ELSE None,
                                 target_format, ssb4_rename_swing,
                                 ssb4_rename_null_swing, bone_map, trim_valvebiped)
              IN  C27_Ref(k + 1, IF applies(new, nm[k])
                                 THEN [nm EXCEPT ![k] = new] ELSE nm)

\* C27: the result of a call is the one function of its inputs that does not
\* look at armature_bones
C27_OrderFree ==
    Returned =>
        LET start == [b \in Bones |-> C27_Start(b)]
            final == C27_Ref(1, start)
        IN  /\ \A b \in Bones : name[b] = final[b]
            /\ result.count = Cardinality({ b \in Bones : final[b] # start[b] })

\* the bones were enumerated children first and the chain of the scenario
\* still ended as Hip, Leg0, S_Leg0, S_Leg1_null
C27_Witness ==
    /\ Returned
    /\ armature_bones = <<4, 3, 2, 1>>
    /\ parent = <<NoParent, 1, 2, 3>>
    /\ target_format = "SSBU"
    /\ orig[3] = <<"S", "W", "G", "_", "L", "e", "g", "0", "_", "_", "s", "w", "i", "n", "g">>
    /\ orig[4] = <<"S", "W", "G", "_", "L", "e", "g", "0", "_", "_", "s", "h", "i", "t">>
    /\ name[3] = <<"S", "_", "L", "e", "g", "0">>
    /\ name[4] = <<"S", "_", "L", "e", "g", "1", "_", "n", "u", "l", "l">>
    /\ result.count = 2

(***************************************************************************)
(* The TRIM operator                                                       *)
(***************************************************************************)
Min(a, b) == IF a < b THEN a ELSE b
Max(a, b) == IF a > b THEN a ELSE b

\* s[c:] for any integer c: a negative c counts from the end
slice_from(s, c) ==
    LET start == IF c >= 0 THEN Min(c, Len(s)) ELSE Max(Len(s) + c, 0)
    IN  SubSeq(s, start + 1, Len(s))

\* s[:-c] for any integer c: the stop -c counts from the end when it is
\* negative, and -0 is 0
slice_to_minus(s, c) ==
    LET e    == 0 - c
        stop == IF e >= 0 THEN Min(e, Len(s)) ELSE Max(Len(s) + e, 0)
    IN  SubSeq(s, 1, stop)

\* SSB_OT_TrimString.execute
TrimString ==
    /\ pc = "idle"
    /\ op = "none"
    /\ last_operator' = "trim_string"
    /\ prev_operator' = last_operator
    /\ IF active_type # "ARMATURE"
       THEN /\ op_result' = "CANCELLED"
            /\ UNCHANGED name
       ELSE /\ op_result' = "FINISHED"
            /\ name' = [b \in Bones |->
                   IF /\ \E i \in 1..Len(get_target_bones(armature_bones, select, ssb4_scope)) :
                             get_target_bones(armature_bones, select, ssb4_scope)[i] = b
                      /\ Len(name[b]) > ssb4_count
                   THEN IF ssb4_direction = "START"
                        THEN slice_from(name[b], ssb4_count)
                        ELSE slice_to_minus(name[b], ssb4_count)
                   ELSE name[b]]
    /\ UNCHANGED <<skeleton, settings, environment, ssb4_last_scheme, pc,
                   target_format, ignore_scope, bones, idx, bone_map, orig,
                   renamed, result, rule_renamed, calls, ssb4_count,
                   ssb4_direction, ssb4_override_lock, valve_bone_format,
                   geometry, ORIGINAL_BONE_DATA, self_character, old_scheme, op,
                   snapshot_geometry>>

\* largest Count the property is set to
MaxCount == 3

\* ssb4_count is an IntProperty without min or max
Counts == (0 - 1)..MaxCount

InitTrim ==
    /\ \E x \in ParentPool, y \in ChildPool :
           name = <<n_Hip, n_Leg0, x, y>>
    /\ parent = <<NoParent, 1, 2, 3>>
    /\ select = <<TRUE, TRUE, FALSE, TRUE>>
    /\ armature_bones = <<1, 2, 3, 4>>
    /\ active_type \in {"ARMATURE", "MESH"}
    /\ active_type # "ARMATURE" =>
           /\ name[3] = CHOOSE x \in ParentPool : TRUE
           /\ name[4] = CHOOSE y \in ChildPool : TRUE
    /\ ssb4_scope \in {"ALL", "SELECTED"}
    /\ ssb4_rename_swing = TRUE
    /\ ssb4_rename_null_swing = TRUE
    /\ ssb4_last_scheme = "SSBU"
    /\ ssb4_character = "Mario"
    /\ trim_valvebiped = FALSE
    /\ character_bone_maps = CHARACTER_BONE_MAPS
    /\ max_calls = MaxCalls
    /\ InitCall
    /\ ssb4_count \in Counts
    /\ ssb4_direction \in {"START", "END"}
    /\ ssb4_override_lock = FALSE
    /\ valve_bone_format = "TF2"
    /\ geometry = [b \in Bones |-> Rest(b)]
    /\ ORIGINAL_BONE_DATA = NoSnapshot
    /\ self_character = "Common"
    /\ old_scheme = ""
    /\ op = "none"
    /\ last_operator = ""
    /\ prev_operator = ""
    /\ op_result = ""
    /\ snapshot_geometry = [b \in Bones |-> Rest(b)]

NextTrim == TrimString

SpecTrim == InitTrim /\ [][NextTrim]_vars

(***************************************************************************)
(* C30 TRIM removes the specified number of characters: for every integer  *)
(* Count, a target bone whose name is longer than Count gets its old name  *)
(* without the first Count characters (START) or without the last Count    *)
(* characters (END), so the new length is the old length minus Count and   *)
(* the new name is not empty; every other bone keeps its name.             *)
(***************************************************************************)
C30_Target(b) ==
    active_type = "ARMATURE" /\ (ssb4_scope = "ALL" \/ select[b])

\* new is old without its first c characters
C30_WithoutFirst(new, old, c) ==
    /\ Len(new) = Len(old) - c
    /\ \A i \in 1..Len(new) : new[i] = old[i + c]

\* new is old without its last c characters
C30_WithoutLast(new, old, c) ==
    /\ Len(new) = Len(old) - c
    /\ \A i \in 1..Len(new) : new[i] = old[i]

\* C30: every step of TRIM removes Count characters from the names longer
\* than Count of the target bones and leaves every other name alone
C30_Trim ==
    [][\A b \in Bones :
          IF C30_Target(b) /\ Len(name[b]) > ssb4_count
          THEN /\ ssb4_direction = "START" =>
                      C30_WithoutFirst(name'[b], name[b], ssb4_count)
               /\ ssb4_direction = "END" =>
                      C30_WithoutLast(name'[b], name[b], ssb4_count)
               /\ name'[b] # <<>>
          ELSE name'[b] = name[b]]_vars

(***************************************************************************)
(* The operators Convert to smash-ultimate-blender, Revert from            *)
(* smash-ultimate-blender and Convert to SSB4.  A call of rename_bones     *)
(* inside an operator is the steps RenameBone and RenameEnd; op holds the  *)
(* place at which the operator goes on when the call has returned.  The    *)
(* bones ClavicleC and LegC that Convert to SSBU adds need bones named     *)
(* ClavicleL and ClavicleR, or LegL and LegR, which no skeleton below has. *)
(***************************************************************************)
\* the operator that returns is recorded
Returns(idname, res) ==
    /\ last_operator' = idname
    /\ prev_operator' = last_operator
    /\ op_result' = res

\* arm_key in ORIGINAL_BONE_DATA
HasSnapshot == ORIGINAL_BONE_DATA # NoSnapshot

\* { eb.name: {head, tail, roll} for eb in edit_bones }: a later bone of the
\* enumeration replaces an earlier one of the same name
snapshot_of(names, geo, order) ==
    [n \in { names[b] : b \in Bones } |->
        LET i == CHOOSE k \in 1..Len(order) :
                     /\ names[order[k]] = n
                     /\ \A j \in (k + 1)..Len(order) : names[order[j]] # n
        IN  geo[order[i]]]

\* eb.matrix = eb.matrix * rot_z and the new lengths
rotate(g) == <<g[1], g[2] + 1>>

\* orig = data.get(eb.name); if orig: eb.head, eb.tail, eb.roll = ...
restore(data, n, g) ==
    IF n \in DOMAIN data.bones THEN data.bones[n] ELSE g

\* UltiBones.execute up to the loop of the rename_bones call that
\* convert_to_ssbu makes with force = True
UltiBonesBegin ==
    /\ op = "none"
    /\ ssb4_override_lock \/ ~HasSnapshot
    /\ old_scheme' = ssb4_last_scheme
    /\ rename_bones_begin(ssb4_character, "SSBU", FALSE)
    /\ op' = "ulti_bones"
    /\ UNCHANGED <<ssb4_count, ssb4_direction, ssb4_override_lock,
                   valve_bone_format, geometry, ORIGINAL_BONE_DATA,
                   self_character, last_operator, prev_operator, op_result,
                   snapshot_geometry>>

\* UltiBones.execute after convert_to_ssbu: snapshot, rotation, lengths
UltiBonesSnapshot ==
    /\ op = "ulti_bones"
    /\ pc = "idle"
    /\ ssb4_last_scheme' = old_scheme
    /\ ORIGINAL_BONE_DATA' = [bones       |-> snapshot_of(name, geometry, armature_bones),
                              last_scheme |-> old_scheme]
    /\ snapshot_geometry' = geometry
    /\ geometry' = [b \in Bones |-> rotate(geometry[b])]
    /\ op' = "none"
    /\ Returns("ulti_bones", "FINISHED")
    /\ UNCHANGED <<name, skeleton, settings, environment, pc, target_format,
                   ignore_scope, bones, idx, bone_map, orig, renamed, result,
                   rule_renamed, calls, ssb4_count, ssb4_direction,
                   ssb4_override_lock, valve_bone_format, self_character,
                   old_scheme>>

\* RevertUltiBones.execute without a snapshot
RevertCancel ==
    /\ op = "none"
    /\ pc = "idle"
    /\ active_type = "ARMATURE"
    /\ ssb4_override_lock
    /\ ~HasSnapshot
    /\ Returns("revert_ulti_bones", "CANCELLED")
    /\ UNCHANGED <<name, skeleton, settings, environment, ssb4_last_scheme, pc,
                   target_format, ignore_scope, bones, idx, bone_map, orig,
                   renamed, result, rule_renamed, calls, ssb4_count,
                   ssb4_direction, ssb4_override_lock, valve_bone_format,
                   geometry, ORIGINAL_BONE_DATA, self_character, old_scheme,
                   op, snapshot_geometry>>

\* RevertUltiBones.execute up to the loop of the call that normalizes to SSBU
RevertBegin ==
    /\ op = "none"
    /\ HasSnapshot
    /\ calls + 2 <= max_calls
    /\ rename_bones_begin(ssb4_character, "SSBU", TRUE)
    /\ op' = "revert_normalize"
    /\ UNCHANGED <<ssb4_count, ssb4_direction, ssb4_override_lock,
                   valve_bone_format, geometry, ORIGINAL_BONE_DATA,
                   self_character, old_scheme, last_operator, prev_operator,
                   op_result, snapshot_geometry>>

\* RevertUltiBones.execute: restore head, tail and roll, then up to the loop
\* of the call that renames back to the recorded scheme
RevertRestore ==
    /\ op = "revert_normalize"
    /\ geometry' = [b \in Bones |->
                       restore(ORIGINAL_BONE_DATA, name[b], geometry[b])]
    /\ LET last == ORIGINAL_BONE_DATA.last_scheme
       IN  rename_bones_begin(ssb4_character,
                              IF last \in {"SSB4", "SSBU"} THEN last
                              ELSE valve_bone_format,
                              TRUE)
    /\ op' = "revert_back"
    /\ UNCHANGED <<ssb4_count, ssb4_direction, ssb4_override_lock,
                   valve_bone_format, ORIGINAL_BONE_DATA, self_character,
                   old_scheme, last_operator, prev_operator, op_result,
                   snapshot_geometry>>

\* RevertUltiBones.execute: del ORIGINAL_BONE_DATA[arm_key]
RevertEnd ==
    /\ op = "revert_back"
    /\ pc = "idle"
    /\ ORIGINAL_BONE_DATA' = NoSnapshot
    /\ op' = "none"
    /\ Returns("revert_ulti_bones", "FINISHED")
    /\ UNCHANGED <<name, skeleton, settings, environment, ssb4_last_scheme, pc,
                   target_format, ignore_scope, bones, idx, bone_map, orig,
                   renamed, result, rule_renamed, calls, ssb4_count,
                   ssb4_direction, ssb4_override_lock, valve_bone_format,
                   geometry, self_character, old_scheme, snapshot_geometry>>

\* ConvertToSSB4.invoke with a snapshot: the dialog is shown
ConvertToSSB4Dialog ==
    /\ op = "none"
    /\ pc = "idle"
    /\ active_type = "ARMATURE"
    /\ calls < max_calls
    /\ HasSnapshot
    /\ op' = "ssb4_dialog"
    /\ UNCHANGED <<name, skeleton, settings, environment, ssb4_last_scheme, pc,
                   target_format, ignore_scope, bones, idx, bone_map, orig,
                   renamed, result, rule_renamed, calls, ssb4_count,
                   ssb4_direction, ssb4_override_lock, valve_bone_format,
                   geometry, ORIGINAL_BONE_DATA, self_character, old_scheme,
                   last_operator, prev_operator, op_result, snapshot_geometry>>

\* ConvertToSSB4.invoke without a snapshot, up to the loop of the call
ConvertToSSB4Invoke ==
    /\ op = "none"
    /\ ~HasSnapshot
    /\ self_character' = ssb4_character
    /\ rename_bones_begin(ssb4_character, "SSB4", FALSE)
    /\ op' = "convert_to_ssb4"
    /\ UNCHANGED <<ssb4_count, ssb4_direction, ssb4_override_lock,
                   valve_bone_format, geometry, ORIGINAL_BONE_DATA, old_scheme,
                   last_operator, prev_operator, op_result, snapshot_geometry>>

\* the dialog is confirmed: ConvertToSSB4.execute up to the loop of the call
ConvertToSSB4Execute ==
    /\ op = "ssb4_dialog"
    /\ rename_bones_begin(self_character, "SSB4", FALSE)
    /\ op' = "convert_to_ssb4"
    /\ UNCHANGED <<ssb4_count, ssb4_direction, ssb4_override_lock,
                   valve_bone_format, geometry, ORIGINAL_BONE_DATA,
                   self_character, old_scheme, last_operator, prev_operator,
                   op_result, snapshot_geometry>>

\* the dialog is dismissed
ConvertToSSB4Dismiss ==
    /\ op = "ssb4_dialog"
    /\ op' = "none"
    /\ Returns("convert_to_ssb4", "CANCELLED")
    /\ UNCHANGED <<name, skeleton, settings, environment, ssb4_last_scheme, pc,
                   target_format, ignore_scope, bones, idx, bone_map, orig,
                   renamed, result, rule_renamed, calls, ssb4_count,
                   ssb4_direction, ssb4_override_lock, valve_bone_format,
                   geometry, ORIGINAL_BONE_DATA, self_character, old_scheme,
                   snapshot_geometry>>

\* ConvertToSSB4.execute after the call
ConvertToSSB4End ==
    /\ op = "convert_to_ssb4"
    /\ pc = "idle"
    /\ ssb4_last_scheme' = "SSB4"
    /\ op' = "none"
    /\ Returns("convert_to_ssb4", "FINISHED")
    /\ UNCHANGED <<name, skeleton, settings, environment, pc, target_format,
                   ignore_scope, bones, idx, bone_map, orig, renamed, result,
                   rule_renamed, calls, ssb4_count, ssb4_direction,
                   ssb4_override_lock, valve_bone_format, geometry,
                   ORIGINAL_BONE_DATA, self_character, old_scheme,
                   snapshot_geometry>>

\* third and fourth bone of the skeletons the operators run on
OperatorParentPool == { <<"S", "W", "G", "_", "L", "e", "g", "0", "_", "_", "s", "w", "i", "n", "g">>, <<"S", "_", "L", "e", "g", "0">>, <<"S", "_", "S", "h", "i", "p", "p", "o", "1">> }
OperatorChildPool == { <<"S", "W", "G", "_", "L", "e", "g", "0", "_", "_", "s", "h", "i", "t">>, <<"S", "_", "L", "e", "g", "0", "_", "n", "u", "l", "l">>, <<"S", "W", "G", "_", "T", "a", "i", "l", "2", "_", "_", "s", "h", "i", "t">> }

\* a scene the earlier conversions left with any last scheme, no snapshot
InitOperatorsRun ==
    /\ \E x \in OperatorParentPool, y \in OperatorChildPool :
           name = <<n_Hip, n_Leg0, x, y>>
    /\ parent = <<NoParent, 1, 2, 3>>
    /\ select = <<TRUE, TRUE, FALSE, TRUE>>
    /\ armature_bones = <<1, 2, 3, 4>>
    /\ active_type = "ARMATURE"
    /\ ssb4_scope \in {"ALL", "SELECTED"}
    /\ ssb4_rename_swing = TRUE
    /\ ssb4_rename_null_swing = TRUE
    /\ ssb4_last_scheme \in {"SSB4", "SSBU", "Valve"}
    /\ ssb4_character \in {"Common", "Mario"}
    /\ trim_valvebiped = FALSE
    /\ character_bone_maps = CHARACTER_BONE_MAPS
    /\ max_calls = MaxCalls + 2
    /\ InitCall
    /\ ssb4_count = 1
    /\ ssb4_direction = "START"
    /\ ssb4_override_lock \in BOOLEAN
    /\ valve_bone_format \in {"HL2", "TF2"}
    /\ geometry = [b \in Bones |-> Rest(b)]
    /\ ORIGINAL_BONE_DATA = NoSnapshot
    /\ self_character = "Common"
    /\ old_scheme = ""
    /\ op = "none"
    /\ last_operator = ""
    /\ prev_operator = ""
    /\ op_result = ""
    /\ snapshot_geometry = [b \in Bones |-> Rest(b)]

NextOperators ==
    \/ UltiBonesBegin
    \/ UltiBonesSnapshot
    \/ RevertCancel
    \/ RevertBegin
    \/ RevertRestore
    \/ RevertEnd
    \/ ConvertToSSB4Dialog
    \/ ConvertToSSB4Invoke
    \/ ConvertToSSB4Execute
    \/ ConvertToSSB4Dismiss
    \/ ConvertToSSB4End
    \/ RenameBone
    \/ RenameEnd

SpecOperators == InitOperatorsRun /\ [][NextOperators]_vars

(***************************************************************************)
(* C28 Revert restores the original geometry: after a Convert to           *)
(* smash-ultimate-blender followed by a Revert on the same armature every  *)
(* bone has the head, tail and roll it had when the snapshot was taken,    *)
(* the names are back in the scheme recorded at conversion and the         *)
(* snapshot entry is deleted; a Revert without a snapshot cancels and      *)
(* changes nothing.                                                        *)
(***************************************************************************)
\* Revert has finished and the operator that returned before it was Convert
C28_Reverted ==
    /\ op = "none"
    /\ last_operator = "revert_ulti_bones"
    /\ op_result = "FINISHED"
    /\ prev_operator = "ulti_bones"

\* the last call renamed every bone to the scheme recorded at conversion
C28_BackInScheme ==
    /\ \A b \in Bones : InNodeSet(b)
    /\ target_format = IF old_scheme \in {"SSB4", "SSBU"} THEN old_scheme
                       ELSE valve_bone_format
    /\ ssb4_last_scheme = old_scheme

\* a step of Revert that cancels
C28_Cancels ==
    /\ op = "none"
    /\ op' = "none"
    /\ last_operator' = "revert_ulti_bones"
    /\ op_result' = "CANCELLED"

\* C28: after Convert and Revert the geometry is the snapshot's, the names
\* are in the recorded scheme and the snapshot is gone; a Revert that
\* cancels changes neither names, geometry, last scheme nor snapshot
C28_Revert ==
    /\ [](C28_Reverted =>
             /\ \A b \in Bones : geometry[b] = snapshot_geometry[b]
             /\ C28_BackInScheme
             /\ ~HasSnapshot)
    /\ [][C28_Cancels =>
             UNCHANGED <<name, geometry, ssb4_last_scheme, ORIGINAL_BONE_DATA>>]_vars

(***************************************************************************)
(* C29 Convert to SSB4 invoked from the panel always renames with the bone *)
(* map of the fighter selected in the scene (scene.ssb4_character), also   *)
(* when the armature has a snapshot and the dialog is shown before execute *)
(* runs.                                                                   *)
(***************************************************************************)
\* the bone map of the fighter selected in the scene, for the target SSB4
C29_SceneMap ==
    build_bone_map(concat_maps(character_bone_maps, ssb4_character),
                   FmtIndex("SSB4"))

\* C29: while the call that Convert to SSB4 makes is running or has just
\* returned, its bone map is the one of the fighter selected in the scene
C29_ActiveFighter ==
    op = "convert_to_ssb4" =>
        /\ target_format = "SSB4"
        /\ DOMAIN bone_map = DOMAIN C29_SceneMap
        /\ \A k \in DOMAIN bone_map : bone_map[k] = C29_SceneMap[k]

====
